---- MODULE Spec2Model ----
(***************************************************************************)
(* Model of parts of tempesta-test.                                        *)
(*                                                                         *)
(* Spec, SpecFrag, SpecWrite: the deproxy client                           *)
(* (framework/deproxy_client.py): BaseDeproxyClient.handle_read and        *)
(* writable run by the event-loop thread, DeproxyClient.recieve_response / *)
(* make_request / wait_for_response, the last two run by the test thread.  *)
(* SpecRead: one client reading any bytes its peer sends.                  *)
(* SpecWake: one client, its test thread, the event loop and a peer that   *)
(* answers the requests it has received.                                   *)
(* SpecSrv: the request strings of malformed/test_malformed_rqline.py sent *)
(* by the client to a server endpoint.                                     *)
(* SpecChunk: msg_modification/tests_encode_to_chunked.py.                 *)
(* SpecClose: a response whose body ends with the connection.              *)
(* SpecTls: TlsHandshake of tls/handshake.py.                              *)
(* SpecOld: TlsHandshakeStandard.do_old of tls/handshake.py.               *)
(* SpecMtu: tcp_flow_check of tls/test_tls_integrity.py with change_mtu    *)
(* of helpers/sysnet.py.                                                   *)
(* SpecIf: create_interfaces of helpers/sysnet.py.                         *)
(* SpecBe: backends of access_log/test_access_log_h2.py.                   *)
(*                                                                         *)
(* Response bytes are modelled as tokens:                                  *)
(*   "H"        a well-formed status line                                  *)
(*   "L0","L1"  the header block "Content-Length: n" and the empty line    *)
(*   "LN"       a header block with no length and no chunked encoding      *)
(*   "x"        one body byte                                              *)
(*   "T"        a byte that is not allowed at the start of a message       *)
(***************************************************************************)
EXTENDS Integers, Sequences, FiniteSets, TLC

\* ---------------------------------------------------------------- bounds
MaxTime == 2
MaxTimeout == 1
MaxWire == 3
MaxRequests == 2
FragMaxMsgs == 2
PipelineMax == 2
MaxSegment == 2
MaxBody == 32

\* ------------------------------------------------------------- constants
MAX_MESSAGE_SIZE == 65536

None == "None"
\* None where a deproxy.Response is expected
NoResponse == [msg |-> << >>, oid |-> 0]
\* None where a deproxy.Request is expected
NoRequest == [original_data |-> << >>]
\* no exception has left make_request
NoRaise == [exc |-> None, request |-> << >>]
\* nothing was decoded yet
NoDecoded == [kind |-> None, body |-> << >>, chunks |-> 0, consumed |-> 0]
STATE_STARTED == "started"
STATE_STOPPED == "stopped"
STATE_IDLE == "idle"

\* The client instances of one test (tls/test_tls_integrity.py, Cache).
Clients == {"clnt1", "clnt2"}

Methods == {"GET"}

\* The bytes the peer of a client may put on the wire.
PeerBytes == {"H", "L0", "T"}

VARIABLES
    state,            \* state[c]: stateful state of the client
    responses,        \* DeproxyClient.responses: ONE list, a class attribute
    last_response,    \* last_response[c]
    nr,               \* nr[c]
    request,          \* request[c]: self.request (None before make_request)
    request_buffer,   \* request_buffer[c]
    response_buffer,  \* response_buffer[c]
    sock,             \* sock[c]: bytes sent by the peer and not yet recv()ed
    npeer,            \* history: number of bytes the peers have sent
    peer,             \* peer[c]: where the peer of c is in its output
    stream,           \* stream[c]: the whole byte sequence under delivery
    err,              \* err[c]: exception that left handle_read, or None
    elpc, elc, elresp,\* event loop: position, client and response in hand
    tpc, tc, tmeth,   \* test thread: position, client, argument
    t0, timeout,      \* wait_for_response: locals
    wres,             \* result of the wait that returned last, or None
    intime,           \* history: the count advanced while now - t0 <= timeout
    sent,             \* history: sent[c] = requests enqueued on c
    now,              \* wall clock
    segment_size,     \* segment_size[c]: bytes per write, 0 when not set
    wire,             \* history: wire[c] = the segments c has written
    enqueued,         \* history: enqueued[c] = the bytes make_request took
    raised,           \* exception that left make_request, or NoRaise
    srv_buffer,       \* server endpoint: its read buffer
    srv_nread,        \* server endpoint: bytes of the client's wire it has read
    srv_requests,     \* server endpoint: the requests it has recorded
    last_request,     \* server endpoint: the last of them, or NoRequest
    srv_err,          \* server endpoint: parse error it has raised, or None
    cpc,              \* chunked test: position
    body_len,         \* chunked test: argument of make_body
    body,             \* chunked test: the body make_body returned
    chunked_body,     \* chunked test: the chunked body make_chain built
    decoded,          \* chunked test: what the parser made of chunked_body
    tls_pc,           \* TlsHandshake: position of the caller
    tls_caller,       \* TlsHandshake: "do_12", or "direct" calls of the parts
    tls_peer,         \* TlsHandshake: the kind of server at addr:port
    tls_sock,         \* TlsHandshake.sock: "none", "open" or "closed"
    inject,           \* TlsHandshake.inject: NoInject for None
    fuzzer,           \* whether a fuzzer was passed
    nfuzzed,          \* history: fuzzed records sent on the connection
    cert,             \* TlsHandshake.cert
    http_resp,        \* TlsHandshake.http_resp
    hs_ret,           \* what _do_12_hs returned, or None
    tls_ret,          \* what the call returned or raised, or None
    randint,          \* random.randint: "randint" or "static_rnd"
    established,      \* history: the server holds the session it finished
    tls_ncall,        \* history: calls made on the TlsHandshake object
    tls_made,         \* history: conn_estab made a socket in this call
    tls_nclose,       \* history: close() calls on the object in self.sock
    npoints,          \* history: calls of inject_bad on the connection
    inject0,          \* history: inject when the connection was opened
    alert_sent,       \* the alert send_12_alert sent before the request
    tls_reply,        \* history: what the last send_recv received, or None
    peer_closed,      \* the peer of the client has closed the connection
    close_seen,       \* the transport has delivered the close to the client
    captured,         \* history: captured[c] = times make_request has set nr
    written,          \* history: written[c] = the requests c has sent whole,
                      \* each named by the number of its make_request
    dmesg_warns,      \* kernel log: the handshake warnings logged so far
    hs_std,           \* TlsHandshakeStandard.do_old: position, version,
                      \* history of the versions tried, result
    dev_mtu,          \* the MTU of the network device
    flow,             \* tcp_flow_check: position, locals, how it ended
    ifaces,           \* create_interfaces: arguments and outcome
    nginx             \* backends: argument and the directive it built

vars == << state, responses, last_response, nr, request, request_buffer,
           response_buffer, sock, npeer, peer, stream, err, elpc, elc, elresp,
           tpc, tc, tmeth, t0, timeout, wres, intime, sent, now,
           segment_size, wire, enqueued, raised,
           srv_buffer, srv_nread, srv_requests, last_request, srv_err,
           cpc, body_len, body, chunked_body, decoded,
           tls_pc, tls_caller, tls_peer, tls_sock, inject, fuzzer, nfuzzed,
           cert, http_resp, hs_ret, tls_ret, randint, established,
           tls_ncall, tls_made, tls_nclose,
           npoints, inject0, alert_sent, tls_reply,
           peer_closed, close_seen, captured, written,
           dmesg_warns, hs_std, dev_mtu, flow, ifaces, nginx >>

\* The variables of the write path.
writeVars == << segment_size, wire, enqueued, raised >>
\* The variables of the server endpoint.
srvVars == << srv_buffer, srv_nread, srv_requests, last_request, srv_err >>
\* The variables of the chunked-encoding test.
chunkVars == << cpc, body_len, body, chunked_body, decoded >>
\* The variables of a TLS handshake.
tlsCallVars == << tls_ncall, tls_made, tls_nclose >>
tlsVars == << tls_pc, tls_caller, tls_peer, tls_sock, inject, fuzzer, nfuzzed,
             cert, http_resp, hs_ret, tls_ret, randint, established,
             tlsCallVars, npoints, inject0, alert_sent, tls_reply >>
\* The variables of the close of a connection.
closeVars == << peer_closed, close_seen >>
\* The history of the calls of make_request and of the requests sent.
wakeVars == << captured, written >>
\* The variables of the helpers: TlsHandshakeStandard, sysnet, backends.
helperVars == << dmesg_warns, hs_std, dev_mtu, flow, ifaces, nginx >>
extVars == << writeVars, srvVars, chunkVars, tlsVars, closeVars,
             wakeVars, helperVars >>

\* ---------------------------------------------------------------- parser
Drop(s, n) == SubSeq(s, n + 1, Len(s))

Min(a, b) == IF a < b THEN a ELSE b

ContentLength(tok) == IF tok = "L0" THEN 0 ELSE IF tok = "L1" THEN 1 ELSE -1

\* A parser that takes what has arrived after headers without framing as
\* the whole body.
Response_ReadsRest(buffer, method) ==
    IF buffer = << >> THEN [kind |-> "IncompliteMessage"]
    ELSE IF buffer[1] # "H" THEN [kind |-> "ParseError"]
    ELSE IF Len(buffer) < 2 THEN [kind |-> "IncompliteMessage"]
    ELSE IF buffer[2] = "LN" THEN [kind |-> "Complete", msg |-> buffer]
    ELSE IF ContentLength(buffer[2]) < 0 THEN [kind |-> "ParseError"]
    ELSE IF Len(buffer) < 2 + ContentLength(buffer[2])
         THEN [kind |-> "IncompliteMessage"]
    ELSE [kind |-> "Complete",
          msg |-> SubSeq(buffer, 1, 2 + ContentLength(buffer[2]))]

\* deproxy.Response(buffer, method=...): the result of building a response
\* from the bytes buffered so far.  After headers with neither a length nor
\* chunked encoding the body ends with the connection, and the connection
\* is open whenever handle_read parses.
Response(buffer, method) ==
    IF buffer = << >> THEN [kind |-> "IncompliteMessage"]
    ELSE IF buffer[1] # "H" THEN [kind |-> "ParseError"]
    ELSE IF Len(buffer) < 2 THEN [kind |-> "IncompliteMessage"]
    ELSE IF buffer[2] = "LN" THEN [kind |-> "IncompliteMessage"]
    ELSE IF ContentLength(buffer[2]) < 0 THEN [kind |-> "ParseError"]
    ELSE IF Len(buffer) < 2 + ContentLength(buffer[2])
         THEN [kind |-> "IncompliteMessage"]
    ELSE [kind |-> "Complete",
          msg |-> SubSeq(buffer, 1, 2 + ContentLength(buffer[2]))]

\* handle_read with "except deproxy.ParseError" swallowing the error as
\* "except deproxy.IncompliteMessage" does.
HandleReadParse_SwallowsParseError(buffer, data, req) ==
    LET buf == buffer \o data IN
    IF buf = << >> THEN [buffer |-> buf, out |-> "return", msg |-> << >>]
    ELSE IF req = None
         THEN [buffer |-> buf, out |-> "AttributeError", msg |-> << >>]
    ELSE LET r == Response(buf, req) IN
         IF r.kind \in {"IncompliteMessage", "ParseError"}
            THEN [buffer |-> buf, out |-> "return", msg |-> << >>]
         ELSE LET rest == Drop(buf, Len(r.msg)) IN
              IF Len(rest) > 0
                 THEN [buffer |-> rest, out |-> "Garbage", msg |-> r.msg]
                 ELSE [buffer |-> rest, out |-> "recieve", msg |-> r.msg]

\* handle_read without the check of lines 29-33: the response is recorded
\* and the bytes after it are left for the next parse.
HandleReadParse_Pipelines(buffer, data, req) ==
    LET buf == buffer \o data IN
    IF buf = << >> THEN [buffer |-> buf, out |-> "return", msg |-> << >>]
    ELSE IF req = None
         THEN [buffer |-> buf, out |-> "AttributeError", msg |-> << >>]
    ELSE LET r == Response(buf, req) IN
         IF r.kind = "IncompliteMessage"
            THEN [buffer |-> buf, out |-> "return", msg |-> << >>]
         ELSE IF r.kind = "ParseError"
            THEN [buffer |-> buf, out |-> "ParseError", msg |-> << >>]
         ELSE [buffer |-> Drop(buf, Len(r.msg)), out |-> "recieve",
               msg |-> r.msg]

\* handle_read emptying the buffer when the message is incomplete.
HandleReadParse_DropsIncomplete(buffer, data, req) ==
    LET buf == buffer \o data IN
    IF buf = << >> THEN [buffer |-> buf, out |-> "return", msg |-> << >>]
    ELSE IF req = None
         THEN [buffer |-> buf, out |-> "AttributeError", msg |-> << >>]
    ELSE LET r == Response(buf, req) IN
         IF r.kind = "IncompliteMessage"
            THEN [buffer |-> << >>, out |-> "return", msg |-> << >>]
         ELSE IF r.kind = "ParseError"
            THEN [buffer |-> buf, out |-> "ParseError", msg |-> << >>]
         ELSE LET rest == Drop(buf, Len(r.msg)) IN
              IF Len(rest) > 0
                 THEN [buffer |-> rest, out |-> "Garbage", msg |-> r.msg]
                 ELSE [buffer |-> rest, out |-> "recieve", msg |-> r.msg]

\* handle_read without line 21: the parsed response stays in the buffer.
HandleReadParse_NoTrim(buffer, data, req) ==
    LET buf == buffer \o data IN
    IF buf = << >> THEN [buffer |-> buf, out |-> "return", msg |-> << >>]
    ELSE IF req = None
         THEN [buffer |-> buf, out |-> "AttributeError", msg |-> << >>]
    ELSE LET r == Response(buf, req) IN
         IF r.kind = "IncompliteMessage"
            THEN [buffer |-> buf, out |-> "return", msg |-> << >>]
         ELSE IF r.kind = "ParseError"
            THEN [buffer |-> buf, out |-> "ParseError", msg |-> << >>]
         ELSE [buffer |-> buf, out |-> "Garbage", msg |-> r.msg]

\* handle_read looking for leftover bytes first and recording the response
\* before it raises.
HandleReadParse_RecordsThenRaises(buffer, data, req) ==
    LET buf == buffer \o data IN
    IF buf = << >> THEN [buffer |-> buf, out |-> "return", msg |-> << >>]
    ELSE IF req = None
         THEN [buffer |-> buf, out |-> "AttributeError", msg |-> << >>]
    ELSE LET r == Response(buf, req) IN
         IF r.kind = "IncompliteMessage"
            THEN [buffer |-> buf, out |-> "return", msg |-> << >>]
         ELSE IF r.kind = "ParseError"
            THEN [buffer |-> buf, out |-> "ParseError", msg |-> << >>]
         ELSE [buffer |-> << >>, out |-> "recieve", msg |-> r.msg]

\* BaseDeproxyClient.handle_read, lines 13-33, as a function of the buffer,
\* the received bytes and self.request: the new buffer, what left the
\* handler ("return", "recieve" = go on to recieve_response, or the
\* exception raised) and the parsed message.
HandleReadParse(buffer, data, req) ==
    LET buf == buffer \o data IN
    IF buf = << >> THEN [buffer |-> buf, out |-> "return", msg |-> << >>]
    ELSE IF req = None
         THEN [buffer |-> buf, out |-> "AttributeError", msg |-> << >>]
    ELSE LET r == Response(buf, req) IN
         IF r.kind = "IncompliteMessage"
            THEN [buffer |-> buf, out |-> "return", msg |-> << >>]
         ELSE IF r.kind = "ParseError"
            THEN [buffer |-> buf, out |-> "ParseError", msg |-> << >>]
         ELSE LET rest == Drop(buf, Len(r.msg)) IN
              IF Len(rest) > 0
                 THEN [buffer |-> rest, out |-> "Garbage", msg |-> r.msg]
                 ELSE [buffer |-> rest, out |-> "recieve", msg |-> r.msg]

\* ------------------------------------------------------------------ init
\* The class attributes of DeproxyClient; the buffers are empty and no
\* request has been made (self.request is None) on a new client.
\* Nothing was enqueued or written and no segment size is set.
WriteIdle ==
    /\ segment_size = [c \in Clients |-> 0]
    /\ wire = [c \in Clients |-> << >>]
    /\ enqueued = [c \in Clients |-> << >>]
    /\ raised = NoRaise

\* The server endpoint has read and recorded nothing.
SrvIdle ==
    /\ srv_buffer = << >>
    /\ srv_nread = 0
    /\ srv_requests = << >>
    /\ last_request = NoRequest
    /\ srv_err = None

\* No chunked-encoding test is running.
ChunkIdle ==
    /\ cpc = "idle"
    /\ body_len = 0
    /\ body = << >>
    /\ chunked_body = << >>
    /\ decoded = NoDecoded

\* TlsHandshake.inject is None
NoInject == -1

\* No TLS handshake is running.
TlsIdle ==
    /\ tls_pc = "idle"
    /\ tls_caller = None
    /\ tls_peer = None
    /\ tls_sock = "none"
    /\ inject = NoInject
    /\ fuzzer = FALSE
    /\ nfuzzed = 0
    /\ cert = None
    /\ http_resp = None
    /\ hs_ret = None
    /\ tls_ret = None
    /\ randint = "randint"
    /\ established = FALSE
    /\ tls_ncall = 0
    /\ tls_made = FALSE
    /\ tls_nclose = 0
    /\ npoints = 0
    /\ inject0 = NoInject
    /\ alert_sent = None
    /\ tls_reply = None

\* The connection is open.
CloseIdle ==
    /\ peer_closed = FALSE
    /\ close_seen = FALSE

\* make_request was never called and nothing was sent.
WakeIdle ==
    /\ captured = [c \in Clients |-> 0]
    /\ written = [c \in Clients |-> << >>]

\* do_old() is not running.
OldIdle ==
    /\ dmesg_warns = 0
    /\ hs_std = [pc |-> "idle", version |-> 0, tried |-> << >>, ret |-> None]

\* tcp_flow_check is not running.
MtuIdle ==
    /\ dev_mtu = 0
    /\ flow = [pc |-> "idle", before |-> 0, prev_mtu |-> 0, exit |-> None]

\* create_interfaces was not called.
IfIdle ==
    ifaces = [pc |-> "idle", base_ip |-> << >>, n |-> 0, ips |-> << >>,
              exc |-> None]

\* backends was not called.
BeIdle ==
    nginx = [pc |-> "idle", status_code |-> 0, directive |-> << >>]

\* The clients after construction.
ClientInit ==
    /\ state = [c \in Clients |-> STATE_IDLE]
    /\ responses = << >>
    /\ last_response = [c \in Clients |-> NoResponse]
    /\ nr = [c \in Clients |-> 0]
    /\ request = [c \in Clients |-> None]
    /\ request_buffer = [c \in Clients |-> << >>]
    /\ response_buffer = [c \in Clients |-> << >>]
    /\ sock = [c \in Clients |-> << >>]
    /\ npeer = 0
    /\ peer = [c \in Clients |-> "silent"]
    /\ stream = [c \in Clients |-> << >>]
    /\ err = [c \in Clients |-> None]
    /\ elpc = "poll" /\ elc = None /\ elresp = NoResponse
    /\ tpc = "ready" /\ tc = None /\ tmeth = None
    /\ t0 = 0 /\ timeout = 0
    /\ wres = None
    /\ intime = FALSE
    /\ sent = [c \in Clients |-> 0]
    /\ now = 0

Init == ClientInit /\ WriteIdle /\ SrvIdle /\ ChunkIdle /\ TlsIdle /\ CloseIdle /\ WakeIdle
    /\ OldIdle /\ MtuIdle /\ IfIdle /\ BeIdle

loopVars == << elpc, elc, elresp >>
testVars == << tpc, tc, tmeth, t0, timeout, wres >>

\* ------------------------------------------------ lifecycle (stateful.py)
Start_Restarts(c) ==
    /\ state[c] # STATE_STARTED
    /\ state' = [state EXCEPT ![c] = STATE_STARTED]
    /\ UNCHANGED << extVars, responses, last_response, nr, request,
                    request_buffer, response_buffer, sock, npeer, peer,
                    stream, err, loopVars, testVars, intime, sent, now >>

Start(c) ==
    /\ state[c] = STATE_IDLE
    /\ state' = [state EXCEPT ![c] = STATE_STARTED]
    /\ UNCHANGED << extVars, responses, last_response, nr, request, request_buffer,
                    response_buffer, sock, npeer, peer, stream, err, loopVars,
                    testVars, intime, sent, now >>

\* stop closes the socket: what the peer sent and was not read is gone.
Stop(c) ==
    /\ state[c] = STATE_STARTED
    /\ state' = [state EXCEPT ![c] = STATE_STOPPED]
    /\ sock' = [sock EXCEPT ![c] = << >>]
    /\ UNCHANGED << extVars, responses, last_response, nr, request, request_buffer,
                    response_buffer, npeer, peer, stream, err, loopVars,
                    testVars, intime, sent, now >>

\* ------------------------------------------------------------- the peer
RECURSIVE SumOver(_, _)
SumOver(f, S) ==
    IF S = {} THEN 0
    ELSE LET c == CHOOSE x \in S : TRUE IN f[c] + SumOver(f, S \ {c})

SentTotal == SumOver(sent, Clients)

\* The peer writes responses byte by byte and may corrupt its output once:
\* the position it reaches by sending byte b, or None if it does not send b.
PeerAfter(pos, b) ==
    IF pos = "bad" THEN None
    ELSE IF b = "T" THEN "bad"
    ELSE IF b = "H" THEN (IF pos = "mid" THEN None ELSE "mid")
    ELSE IF pos = "mid" THEN "boundary" ELSE None

\* The peer sends one more byte on a live connection; bytes that arrive
\* before the next read are received together.
PeerSend(c, b) ==
    /\ state[c] = STATE_STARTED
    /\ err[c] = None
    /\ npeer < MaxWire
    /\ PeerAfter(peer[c], b) # None
    /\ peer' = [peer EXCEPT ![c] = PeerAfter(@, b)]
    /\ sock' = [sock EXCEPT ![c] = Append(@, b)]
    /\ npeer' = npeer + 1
    /\ UNCHANGED << extVars, stream, state, responses, last_response, nr, request,
                    request_buffer, response_buffer, err, loopVars,
                    testVars, intime, sent, now >>

\* The clock is read by wait_for_response only.
Tick ==
    /\ tpc \in {"w_cond", "w_time"}
    /\ now < MaxTime
    /\ now' = now + 1
    /\ UNCHANGED << extVars, state, responses, last_response, nr, request,
                    request_buffer, response_buffer, sock, npeer, peer, stream, err,
                    loopVars, testVars, intime, sent >>

\* ------------------------------------------- event loop: handle_read
\* self.recv(deproxy.MAX_MESSAGE_SIZE): what has arrived, up to the maximum
Recv(c) == SubSeq(sock[c], 1, Min(Len(sock[c]), MAX_MESSAGE_SIZE))

\* Lines 13-33: recv, parse, trim the buffer, check for garbage.  A readable
\* event may find nothing to receive: recv then returns the empty string.
\* An exception leaves the handler and the channel is not serviced again.
HandleRead(c) ==
    /\ elpc = "poll"
    /\ state[c] = STATE_STARTED
    /\ err[c] = None
    /\ LET r == HandleReadParse(response_buffer[c], Recv(c), request[c])
       IN /\ sock' = [sock EXCEPT ![c] = Drop(@, Len(Recv(c)))]
          /\ response_buffer' = [response_buffer EXCEPT ![c] = r.buffer]
          /\ IF r.out = "recieve"
                THEN /\ elpc' = "append"
                     /\ elc' = c
                     /\ elresp' = [msg |-> r.msg, oid |-> Len(responses) + 1]
                     /\ err' = err
                ELSE /\ UNCHANGED loopVars
                     /\ err' = [err EXCEPT ![c] =
                                   IF r.out = "return" THEN None ELSE r.out]
    /\ UNCHANGED << extVars, state, responses, last_response, nr, request,
                    request_buffer, npeer, peer, stream, testVars, intime, sent,
                    now >>

Waiting == tpc \in {"w_cond", "w_time"}

\* recieve_response, line 55: self.responses.append(response)
RecieveAppend ==
    /\ elpc = "append"
    /\ responses' = Append(responses, elresp)
    /\ elpc' = "setlast"
    /\ intime' = (intime \/ (Waiting /\ now - t0 <= timeout))
    /\ UNCHANGED << extVars, state, last_response, nr, request, request_buffer,
                    response_buffer, sock, npeer, peer, stream, err, elc, elresp,
                    testVars, sent, now >>

\* recieve_response, line 56, and handle_read, line 35
RecieveSetLast ==
    /\ elpc = "setlast"
    /\ last_response' = [last_response EXCEPT ![elc] = elresp]
    /\ response_buffer' = [response_buffer EXCEPT ![elc] = << >>]
    /\ elpc' = "poll" /\ elc' = None /\ elresp' = NoResponse
    /\ UNCHANGED << extVars, state, responses, nr, request, request_buffer,
                    sock, npeer, peer, stream, err, testVars, intime, sent, now >>

\* ------------------------------------------- test thread: make_request
\* make_request starting a fresh history: self.responses = []; self.nr = 0
MakeRequestNr_ClearsResponses(c, m) ==
    /\ tpc = "ready"
    /\ SentTotal < MaxRequests
    /\ responses' = << >>
    /\ nr' = [nr EXCEPT ![c] = 0]
    /\ tpc' = "mr_base" /\ tc' = c /\ tmeth' = m
    /\ wres' = None /\ t0' = 0 /\ timeout' = 0 /\ intime' = FALSE
    /\ UNCHANGED << extVars, state, last_response, request, request_buffer,
                    response_buffer, sock, npeer, peer, stream, err,
                    loopVars, sent, now >>

\* DeproxyClient.make_request, line 59
MakeRequestNr(c, m) ==
    /\ tpc = "ready"
    /\ SentTotal < MaxRequests
    /\ nr' = [nr EXCEPT ![c] = Len(responses)]
    /\ tpc' = "mr_base" /\ tc' = c /\ tmeth' = m
    /\ wres' = None /\ t0' = 0 /\ timeout' = 0 /\ intime' = FALSE
    /\ UNCHANGED << extVars, state, responses, last_response, request, request_buffer,
                    response_buffer, sock, npeer, peer, stream, err, loopVars, sent, now >>

\* BaseDeproxyClient.make_request, lines 41-42
MakeRequestBase ==
    /\ tpc = "mr_base"
    /\ request' = [request EXCEPT ![tc] = tmeth]
    /\ request_buffer' = [request_buffer EXCEPT ![tc] = << tmeth >>]
    /\ sent' = [sent EXCEPT ![tc] = @ + 1]
    /\ tpc' = "ready" /\ tc' = None /\ tmeth' = None
    /\ UNCHANGED << extVars, state, responses, last_response, nr,
                    response_buffer, sock, npeer, peer, stream, err, loopVars,
                    t0, timeout, wres, intime, now >>

\* --------------------------------------- test thread: wait_for_response
\* wait_for_response without lines 63-64
WaitBegin_NoStateCheck(c, to) ==
    /\ tpc = "ready"
    /\ now + to < MaxTime
    /\ tmeth' = None
    /\ wres' = None
    /\ tpc' = "w_cond" /\ tc' = c
    /\ t0' = now /\ timeout' = to
    /\ intime' = (Len(responses) # nr[c])
    /\ UNCHANGED << extVars, state, responses, last_response, nr, request,
                    request_buffer, response_buffer, sock, npeer, peer,
                    stream, err, loopVars, sent, now >>

\* lines 63-66
WaitBegin(c, to) ==
    /\ tpc = "ready"
    /\ now + to < MaxTime
    /\ tmeth' = None
    /\ IF state[c] # STATE_STARTED
          THEN /\ wres' = "False"
               /\ tpc' = "ready" /\ tc' = None
               /\ t0' = 0 /\ timeout' = 0 /\ intime' = FALSE
          ELSE /\ wres' = None
               /\ tpc' = "w_cond" /\ tc' = c
               /\ t0' = now /\ timeout' = to
               /\ intime' = (Len(responses) # nr[c])
    /\ UNCHANGED << extVars, state, responses, last_response, nr, request,
                    request_buffer, response_buffer, sock, npeer, peer,
                    stream, err, loopVars, sent, now >>

\* line 67: while len(self.responses) == self.nr  (line 72 when it fails)
WaitCond ==
    /\ tpc = "w_cond"
    /\ IF Len(responses) = nr[tc]
          THEN /\ tpc' = "w_time" /\ wres' = wres
               /\ UNCHANGED << tc, t0, timeout, intime >>
          ELSE /\ tpc' = "ready" /\ wres' = "True"
               /\ tc' = None /\ t0' = 0 /\ timeout' = 0 /\ intime' = FALSE
    /\ UNCHANGED << extVars, state, responses, last_response, nr, request,
                    request_buffer, response_buffer, sock, npeer, peer,
                    stream, err, loopVars, tmeth, sent, now >>

\* lines 68-71: t = time.time(); return False past the timeout, else sleep
WaitTime ==
    /\ tpc = "w_time"
    /\ IF now - t0 > timeout
          THEN /\ tpc' = "ready" /\ wres' = "False"
               /\ tc' = None /\ t0' = 0 /\ timeout' = 0 /\ intime' = FALSE
          ELSE /\ tpc' = "w_cond" /\ wres' = wres
               /\ UNCHANGED << tc, t0, timeout, intime >>
    /\ UNCHANGED << extVars, state, responses, last_response, nr, request,
                    request_buffer, response_buffer, sock, npeer, peer,
                    stream, err, loopVars, tmeth, sent, now >>

EventLoop ==
    \/ \E c \in Clients : HandleRead(c)
    \/ RecieveAppend
    \/ RecieveSetLast

TestThread ==
    \/ \E c \in Clients : \E m \in Methods : MakeRequestNr(c, m)
    \/ MakeRequestBase
    \/ \E c \in Clients : \E to \in 0..MaxTimeout : WaitBegin(c, to)
    \/ WaitCond
    \/ WaitTime

Next ==
    \/ \E c \in Clients : Start(c)
    \/ \E c \in Clients : Stop(c)
    \/ \E c \in Clients : \E m \in PeerBytes : PeerSend(c, m)
    \/ Tick
    \/ EventLoop
    \/ TestThread

Spec == Init /\ [][Next]_vars

\* ------------------------------------------------------------------------
\* Fragmented delivery of one byte stream to one client.  The client is
\* started and has made its request; the stream is chosen at the start and
\* arrives in fragments of any size, each read receiving what has arrived.
FragClient == "clnt1"

WellFormed == { <<"H", "L0">>, <<"H", "L1", "x">> }

RECURSIVE StreamsOf(_)
StreamsOf(n) ==
    IF n = 0 THEN { << >> }
    ELSE { s \o m : s \in StreamsOf(n - 1), m \in WellFormed }

FragStreams == UNION { StreamsOf(n) : n \in 1..FragMaxMsgs }

FragInit ==
    /\ state = [c \in Clients |->
                   IF c = FragClient THEN STATE_STARTED ELSE STATE_IDLE]
    /\ responses = << >>
    /\ last_response = [c \in Clients |-> NoResponse]
    /\ nr = [c \in Clients |-> 0]
    /\ request = [c \in Clients |-> IF c = FragClient THEN "GET" ELSE None]
    /\ request_buffer = [c \in Clients |->
                            IF c = FragClient THEN << "GET" >> ELSE << >>]
    /\ response_buffer = [c \in Clients |-> << >>]
    /\ sock = [c \in Clients |-> << >>]
    /\ npeer = 0
    /\ peer = [c \in Clients |-> "silent"]
    /\ \E B \in FragStreams :
          stream = [c \in Clients |-> IF c = FragClient THEN B ELSE << >>]
    /\ err = [c \in Clients |-> None]
    /\ elpc = "poll" /\ elc = None /\ elresp = NoResponse
    /\ tpc = "ready" /\ tc = None /\ tmeth = None
    /\ t0 = 0 /\ timeout = 0
    /\ wres = None
    /\ intime = FALSE
    /\ sent = [c \in Clients |-> IF c = FragClient THEN 1 ELSE 0]
    /\ now = 0
    /\ WriteIdle /\ SrvIdle /\ ChunkIdle /\ TlsIdle /\ CloseIdle /\ WakeIdle
    /\ OldIdle /\ MtuIdle /\ IfIdle /\ BeIdle

\* The next k bytes of the stream arrive.
FragDeliver(k) ==
    /\ err[FragClient] = None
    /\ k >= 1
    /\ npeer + k <= Len(stream[FragClient])
    /\ sock' = [sock EXCEPT ![FragClient] =
                    @ \o SubSeq(stream[FragClient], npeer + 1, npeer + k)]
    /\ npeer' = npeer + k
    /\ UNCHANGED << extVars, peer, stream, state, responses, last_response, nr,
                    request, request_buffer, response_buffer, err, loopVars,
                    testVars, intime, sent, now >>

FragNext ==
    \/ \E k \in 1..(3 * FragMaxMsgs) : FragDeliver(k)
    \/ HandleRead(FragClient)
    \/ RecieveAppend
    \/ RecieveSetLast

SpecFrag == FragInit /\ [][FragNext]_vars

\* The messages recorded so far, in order.
RECURSIVE Msgs(_)
Msgs(rs) == IF rs = << >> THEN << >> ELSE << Head(rs).msg >> \o Msgs(Tail(rs))

\* What one read of the whole stream B records and raises.
OneShot(B) == HandleReadParse(<< >>, B, "GET")
OneShotMsgs(B) == IF OneShot(B).out = "recieve" THEN << OneShot(B).msg >>
                  ELSE << >>
OneShotErr(B) == IF OneShot(B).out \in {"recieve", "return"} THEN None
                 ELSE OneShot(B).out

\* The stream has been delivered and handled to the end.
FragDone ==
    /\ elpc = "poll"
    /\ sock[FragClient] = << >>
    /\ \/ npeer = Len(stream[FragClient])
       \/ err[FragClient] # None

\* C1: delivering the stream in any fragments records the same messages,
\* in the same order, and ends with the same error, as delivering it in
\* one read.
C1_FragmentationInvariance ==
    FragDone =>
        /\ Msgs(responses) = OneShotMsgs(stream[FragClient])
        /\ err[FragClient] = OneShotErr(stream[FragClient])

\* ------------------------------------------------------------------------
\* self.responses as seen from instance c: no instance ever assigns the
\* attribute, so the lookup always finds the list of the class.
ResponsesOf(c) == responses

\* The wait of the test thread returns in this step.
WaitReturns == Waiting /\ tpc' = "ready"

\* C2: a wait returns True only if the count has advanced past the value
\* captured by the last make_request, and a wait during which the count
\* advanced before the timeout elapsed returns True.
C2_WaitTrueIffAdvancedInTime ==
    [][WaitReturns =>
          /\ (wres' = "True" => Len(ResponsesOf(tc)) > nr[tc])
          /\ (intime => wres' = "True")]_vars

\* C3: a wait on a client that has enqueued a request and whose peer never
\* responds returns False, after more than the timeout has passed since the
\* wait began, and changes neither the responses nor last_response.
C3_TimeoutReturnsFalse ==
    [][(WaitReturns /\ sent[tc] > 0 /\ peer[tc] = "silent") =>
          /\ wres' = "False"
          /\ now - t0 > timeout
          /\ responses' = responses
          /\ last_response' = last_response]_vars

\* C4: a client never has more responses recorded than requests enqueued.
C4_ReceivedAtMostSent ==
    \A c \in Clients : Len(ResponsesOf(c)) <= sent[c]

\* C5: recording a response for one client changes neither the responses
\* nor the received count of any other client.
C5_InstancesOwnResponses ==
    [][\A c \in Clients :
          (elpc = "append" /\ elpc' = "setlast" /\ elc # c) =>
              ResponsesOf(c)' = ResponsesOf(c)]_vars

\* C6: when a wait returns True, last_response of the client is a response
\* recorded after the count was captured, not None and not an older one.
C6_LastResponseSetWhenWaitTrue ==
    [][(WaitReturns /\ wres' = "True") =>
          /\ last_response[tc] # NoResponse
          /\ last_response[tc].oid > nr[tc]]_vars

\* C7: a wait that is pending on a stopped client returns False.
C7_PendingWaitFalseAfterStop ==
    [][(WaitReturns /\ state[tc] = STATE_STOPPED) => wres' = "False"]_vars

\* ------------------------------------------------------------------------
\* The buffer handle_read parses for client c: what was buffered and what
\* recv returns.
ParsedBuffer(c) == response_buffer[c] \o Recv(c)

\* C8: when the parser raises ParseError on the read buffer, handle_read
\* ends with that error, and neither responses nor last_response change.
C8_ParseErrorPropagates ==
    [][\A c \in Clients :
          (/\ HandleRead(c)
           /\ request[c] # None
           /\ Response(ParsedBuffer(c), request[c]).kind = "ParseError") =>
              /\ err'[c] = "ParseError"
              /\ elpc' = "poll"
              /\ responses' = responses
              /\ last_response' = last_response]_vars

C8_Witness ==
    \E c \in Clients : err[c] = "ParseError" /\ request[c] # None

\* C9: when bytes remain in the buffer after a complete response, handle_read
\* raises the garbage error, records nothing and starts no further parse;
\* the bytes after the response stay in the buffer.
C9_GarbageAfterResponse ==
    [][\A c \in Clients :
          (/\ HandleRead(c)
           /\ request[c] # None
           /\ Response(ParsedBuffer(c), request[c]).kind = "Complete"
           /\ Len(ParsedBuffer(c))
                 > Len(Response(ParsedBuffer(c), request[c]).msg)) =>
              /\ err'[c] = "Garbage"
              /\ elpc' = "poll"
              /\ responses' = responses
              /\ response_buffer'[c] =
                    Drop(ParsedBuffer(c),
                         Len(Response(ParsedBuffer(c), request[c]).msg))]_vars

C9_Witness ==
    \E c \in Clients : err[c] = "Garbage" /\ response_buffer[c] # << >>

\* C10: the recorded responses only grow by appending: every step keeps the
\* responses recorded before it, unchanged and in place.
C10_ResponsesOnlyAppend ==
    [][/\ Len(responses') >= Len(responses)
       /\ SubSeq(responses', 1, Len(responses)) = responses]_vars

\* A response was recorded and, later, the same client made a request,
\* hit a parse error and was stopped.
C10_Witness ==
    \E c \in Clients :
        /\ Len(responses) >= 1
        /\ last_response[c] = responses[1]
        /\ err[c] = "ParseError"
        /\ state[c] = STATE_STOPPED
        /\ sent[c] = 2

\* ------------------------------------------------------------------------
\* Requests and their parser.
\* Request bytes are modelled as tokens:
\*   "M"             letters of a method
\*   "U","Ua","Ub"   the rest of a request line: " / HTTP/1.1\r\n",
\*                   " /aaa HTTP/1.1\r\n", " /bbb HTTP/1.1\r\n"
\*   "HOST"          "Host: localhost\r\n"
\*   "CRLF"          the empty line that ends the headers
\*   "LF","TAB"      a bare line feed, a tab
Targets == { "U", "Ua", "Ub" }

R1 == << "M", "Ua", "HOST", "CRLF" >>
R2 == << "M", "Ub", "HOST", "CRLF" >>

\* test_01/07, test_03/09, test_05/11: the request strings
MalformedAlone ==
    { << "LF", "LF", "M", "U", "HOST", "CRLF" >>,
      << "TAB", "M", "U", "HOST", "CRLF" >>,
      << "M", "TAB", "M", "U", "HOST", "CRLF" >> }

\* test_02/08, test_04/10, test_06/12: what follows the first request
MalformedSecond ==
    { << "LF", "LF" >> \o R2,
      << "TAB" >> \o R2,
      << "M", "TAB", "M", "Ub", "HOST", "CRLF" >> }

MalformedPipelined == { R1 \o m : m \in MalformedSecond }

RECURSIVE PipelinesOf(_)
PipelinesOf(n) ==
    IF n = 0 THEN { << >> }
    ELSE { s \o m : s \in PipelinesOf(n - 1), m \in { R1, R2 } }

\* one to PipelineMax well-formed requests back to back
WellFormedPipelined == UNION { PipelinesOf(n) : n \in 1..PipelineMax }

TestRequests == MalformedAlone \cup MalformedPipelined \cup WellFormedPipelined

\* Where the header block that starts at i ends: the place of its empty
\* line, 0 when that has not arrived, -1 on a byte no header starts with.
RECURSIVE HeadersEnd(_, _)
HeadersEnd(buffer, i) ==
    IF i > Len(buffer) THEN 0
    ELSE IF buffer[i] = "CRLF" THEN i
    ELSE IF buffer[i] = "HOST" THEN HeadersEnd(buffer, i + 1)
    ELSE -1

\* deproxy.Request on a buffer whose first skip bytes are passed over.
\* The start line is a method, then the target and version; a line feed or
\* a tab where the method starts, or a tab inside the method, is a bad
\* start line.  Nothing is consumed before the whole request has arrived.
RequestAt(buffer, skip) ==
    LET b == Drop(buffer, skip)
        e == HeadersEnd(b, 3)
    IN IF b = << >> THEN [kind |-> "IncompliteMessage", msg |-> << >>]
       ELSE IF b[1] # "M" THEN [kind |-> "ParseError", msg |-> << >>]
       ELSE IF Len(b) = 1 THEN [kind |-> "IncompliteMessage", msg |-> << >>]
       ELSE IF b[2] \notin Targets THEN [kind |-> "ParseError", msg |-> << >>]
       ELSE IF e = 0 THEN [kind |-> "IncompliteMessage", msg |-> << >>]
       ELSE IF e = -1 THEN [kind |-> "ParseError", msg |-> << >>]
       ELSE [kind |-> "Complete", msg |-> SubSeq(buffer, 1, skip + e)]

\* The number of bytes t at the front of the buffer.
RECURSIVE Leading(_, _)
Leading(buffer, t) ==
    IF buffer # << >> /\ Head(buffer) = t THEN 1 + Leading(Tail(buffer), t)
    ELSE 0

Request_SkipsEmptyLines(buffer) == RequestAt(buffer, Leading(buffer, "LF"))

Request_SkipsLeadingTabs(buffer) == RequestAt(buffer, Leading(buffer, "TAB"))

\* deproxy.Request(buffer): the request at the front of the buffer.
Request(buffer) == RequestAt(buffer, 0)

\* ------------------------------------------------------------------------
\* The write path of one client.  The test thread sets segment_size before
\* start and calls make_request; the event loop calls handle_write on a
\* started client for which writable() holds; the peer answers and the
\* event loop reads as in Spec.
WriteClient == "clnt1"

\* The well-formed requests a test enqueues, of four and of three bytes.
Requests == { R1, << "M", "U", "CRLF" >> }

RECURSIVE Flat(_)
Flat(segs) == IF segs = << >> THEN << >> ELSE Head(segs) \o Flat(Tail(segs))

Ceil(a, b) == (a + b - 1) \div b

writable_Always(c) == Len(request_buffer[c]) >= 0

\* writable(), lines 37-38
writable(c) == Len(request_buffer[c]) > 0

\* BaseDeproxyClient.make_request, line 42: the buffer after the call
BaseMakeRequest(buffer, req) == req

\* common_check, lines 62-63: deproxy_cl.segment_size = 1, before start
SetSegmentSize(c, s) ==
    /\ state[c] = STATE_IDLE
    /\ segment_size[c] = 0
    /\ segment_size' = [segment_size EXCEPT ![c] = s]
    /\ UNCHANGED << srvVars, chunkVars, tlsVars, helperVars, closeVars, wakeVars, state, responses, last_response, nr, request,
                    request_buffer, response_buffer, sock, npeer, peer,
                    stream, err, loopVars, testVars, intime, sent, now,
                    wire, enqueued, raised >>

\* DeproxyClient.make_request, lines 58-60 and 40-42.  Neither method
\* looks at self.state.  Line 41 parses the request string: a string the
\* parser refuses raises there, before request_buffer is assigned.  nr and
\* request are not read by handle_write, so the call is one step here.
MakeRequest(c, r) ==
    /\ SentTotal < MaxRequests
    /\ raised = NoRaise
    /\ nr' = [nr EXCEPT ![c] = Len(responses)]
    /\ IF Request(r).kind = "Complete"
          THEN /\ request' = [request EXCEPT ![c] = "GET"]
               /\ request_buffer' =
                     [request_buffer EXCEPT ![c] = BaseMakeRequest(@, r)]
               /\ sent' = [sent EXCEPT ![c] = @ + 1]
               /\ enqueued' = [enqueued EXCEPT ![c] = @ \o r]
               /\ raised' = raised
          ELSE /\ raised' = [exc |-> Request(r).kind, request |-> r]
               /\ UNCHANGED << request, request_buffer, sent, enqueued >>
    /\ UNCHANGED << srvVars, chunkVars, tlsVars, helperVars, closeVars, wakeVars, state, responses, last_response,
                    response_buffer, sock, npeer, peer, stream, err,
                    loopVars, testVars, intime, now, segment_size, wire >>

\* handle_write: one writable event sends the first segment_size bytes of
\* request_buffer, or all of it when no segment size is set, and removes
\* what was sent.  The request in the buffer is the one of the last
\* make_request (line 42); it is sent whole when the buffer is flushed.
HandleWrite(c) ==
    /\ elpc = "poll"
    /\ state[c] = STATE_STARTED
    /\ writable(c)
    /\ LET n == IF segment_size[c] = 0 THEN Len(request_buffer[c])
                ELSE Min(segment_size[c], Len(request_buffer[c]))
       IN /\ wire' = [wire EXCEPT ![c] =
                         Append(@, SubSeq(request_buffer[c], 1, n))]
          /\ request_buffer' = [request_buffer EXCEPT ![c] = Drop(@, n)]
          /\ written' = IF n = Len(request_buffer[c])
                            THEN [written EXCEPT ![c] = Append(@, sent[c])]
                         ELSE written
    /\ UNCHANGED << srvVars, chunkVars, tlsVars, helperVars, closeVars, captured, state,
                    responses, last_response, nr, request,
                    response_buffer, sock, npeer, peer, stream, err,
                    loopVars, testVars, intime, sent, now, segment_size,
                    enqueued, raised >>

WriteNext ==
    \/ Start(WriteClient)
    \/ Stop(WriteClient)
    \/ \E s \in 1..MaxSegment : SetSegmentSize(WriteClient, s)
    \/ \E r \in Requests : MakeRequest(WriteClient, r)
    \/ HandleWrite(WriteClient)
    \/ \E m \in PeerBytes : PeerSend(WriteClient, m)
    \/ HandleRead(WriteClient)
    \/ RecieveAppend
    \/ RecieveSetLast

SpecWrite == Init /\ [][WriteNext]_vars

\* C15: the phase of an endpoint changes only from idle to started and from
\* started to stopped, and a read hook is entered or a write hook run on an
\* endpoint only while it is started.
C15_PhaseOrder ==
    [][\A c \in Clients :
          /\ state'[c] # state[c] =>
                << state[c], state'[c] >> \in
                    { << STATE_IDLE, STATE_STARTED >>,
                      << STATE_STARTED, STATE_STOPPED >> }
          /\ wire'[c] # wire[c] => state[c] = STATE_STARTED
          /\ ( /\ elpc = "poll"
               /\ \/ response_buffer'[c] # response_buffer[c]
                  \/ err'[c] # err[c]
                  \/ (elpc' = "append" /\ elc' = c) )
                => state[c] = STATE_STARTED]_vars

\* The endpoint went through its whole life and both hooks ran in it.
C15_Witness ==
    /\ state[WriteClient] = STATE_STOPPED
    /\ wire[WriteClient] # << >>
    /\ responses # << >>

\* C16: make_request on an endpoint that is not started leaves the write
\* buffer and the sent count as they were.
C16_EnqueueOnlyWhenStarted ==
    [][\A c \in Clients :
          state[c] # STATE_STARTED =>
              /\ request_buffer'[c] = request_buffer[c]
              /\ sent'[c] = sent[c]]_vars

\* C17: no enqueued byte is lost: what was written followed by what waits in
\* the buffer is what was enqueued, in order.
C17_EnqueueAppends ==
    \A c \in Clients : Flat(wire[c]) \o request_buffer[c] = enqueued[c]

\* C18: every written segment has at most segment_size bytes; once the
\* buffer is flushed the written segments together are the enqueued bytes,
\* and one request of L bytes took ceil(L / segment_size) writes; with no
\* segment size every write is one whole request.
C18_Segmentation ==
    \A c \in Clients :
       /\ \A i \in 1..Len(wire[c]) :
             IF segment_size[c] > 0
                THEN Len(wire[c][i]) <= segment_size[c]
                ELSE wire[c][i] \in Requests
       /\ request_buffer[c] = << >> =>
             /\ Flat(wire[c]) = enqueued[c]
             /\ (sent[c] = 1 /\ segment_size[c] > 0) =>
                   Len(wire[c]) = Ceil(Len(enqueued[c]), segment_size[c])

\* C19: writable() holds exactly while request_buffer is not empty: never
\* before the first make_request, always right after one, after a write
\* exactly when the write left bytes behind; and nothing is written for an
\* endpoint that is not writable.
C19_WritableIffPending ==
    [][\A c \in Clients :
          /\ writable(c) <=> request_buffer[c] # << >>
          /\ sent[c] = 0 => (~writable(c) /\ wire[c] = << >>)
          /\ sent'[c] > sent[c] => writable(c)'
          /\ wire'[c] # wire[c] =>
                /\ writable(c)
                /\ wire'[c][Len(wire'[c])] # << >>
                /\ writable(c)' <=>
                      Len(wire'[c][Len(wire'[c])]) < Len(request_buffer[c])
          /\ (~writable(c) /\ sent'[c] = sent[c]) =>
                (wire'[c] = wire[c] /\ ~writable(c)')]_vars

\* A request was enqueued, written in more than one segment and flushed.
C19_Witness ==
    /\ Len(wire[WriteClient]) > 1
    /\ enqueued[WriteClient] # << >>
    /\ ~writable(WriteClient)

\* ------------------------------------------------------------------------
\* A server endpoint fed by one client.  The client sends one request
\* string, whole or in segments; the endpoint reads what has been written,
\* parses it and records every complete request.
ServerRead_OneMessage(buffer) ==
    LET r == Request(buffer)
    IN IF r.kind = "Complete"
          THEN [buffer |-> Drop(buffer, Len(r.msg)), msgs |-> << r.msg >>,
                err |-> None]
       ELSE [buffer |-> buffer, msgs |-> << >>,
             err |-> IF r.kind = "ParseError" THEN "ParseError" ELSE None]

\* The server endpoint's handle_read on a buffer that already holds the
\* received bytes: the parser is invoked until it reports an incomplete
\* message; every complete request is taken off the front of the buffer.
RECURSIVE ServerRead(_)
ServerRead(buffer) ==
    LET r == Request(buffer)
    IN IF r.kind = "Complete"
          THEN LET rest == ServerRead(Drop(buffer, Len(r.msg)))
               IN [buffer |-> rest.buffer, msgs |-> << r.msg >> \o rest.msgs,
                   err |-> rest.err]
       ELSE [buffer |-> buffer, msgs |-> << >>,
             err |-> IF r.kind = "ParseError" THEN "ParseError" ELSE None]

\* The bytes the client has written and the server has not read.
SrvAvailable == Drop(Flat(wire[WriteClient]), srv_nread)

RECURSIVE Recorded(_)
Recorded(msgs) ==
    IF msgs = << >> THEN << >>
    ELSE << [original_data |-> Head(msgs)] >> \o Recorded(Tail(msgs))

\* One readable event of the server endpoint; a parse error ends the
\* connection.
ServerHandleRead ==
    /\ srv_err = None
    /\ SrvAvailable # << >>
    /\ LET data == SubSeq(SrvAvailable, 1,
                          Min(Len(SrvAvailable), MAX_MESSAGE_SIZE))
           r == ServerRead(srv_buffer \o data)
       IN /\ srv_nread' = srv_nread + Len(data)
          /\ srv_buffer' = r.buffer
          /\ srv_requests' = srv_requests \o Recorded(r.msgs)
          /\ last_request' = IF r.msgs = << >> THEN last_request
                             ELSE [original_data |-> r.msgs[Len(r.msgs)]]
          /\ srv_err' = r.err
    /\ UNCHANGED << writeVars, chunkVars, tlsVars, helperVars, closeVars, wakeVars, state, responses, last_response, nr, request,
                    request_buffer, response_buffer, sock, npeer, peer,
                    stream, err, loopVars, testVars, intime, sent, now >>

\* common_check, lines 61-71: segment_size is set or not, the client is
\* started and makes one request.
SrvNext ==
    \/ \E s \in 1..MaxSegment : SetSegmentSize(WriteClient, s)
    \/ Start(WriteClient)
    \/ \E r \in TestRequests :
          /\ state[WriteClient] = STATE_STARTED
          /\ sent[WriteClient] = 0
          /\ MakeRequest(WriteClient, r)
    \/ HandleWrite(WriteClient)
    \/ ServerHandleRead

SpecSrv == Init /\ [][SrvNext]_vars

\* The client has written its whole request and the server has read it.
SrvAllRead ==
    /\ enqueued[WriteClient] # << >>
    /\ request_buffer[WriteClient] = << >>
    /\ SrvAvailable = << >>

RECURSIVE OriginalData(_)
OriginalData(rs) ==
    IF rs = << >> THEN << >>
    ELSE Head(rs).original_data \o OriginalData(Tail(rs))

\* C11: well-formed requests sent back to back are never rejected, and once
\* they are read (together or in pieces) each is recorded as a complete
\* request, in the order sent, and the read buffer is empty.
C11_Pipelining ==
    enqueued[WriteClient] \in WellFormedPipelined =>
       /\ srv_err = None
       /\ \A i \in 1..Len(srv_requests) :
             srv_requests[i].original_data \in { R1, R2 }
       /\ SrvAllRead =>
             /\ OriginalData(srv_requests) = enqueued[WriteClient]
             /\ srv_buffer = << >>

\* R1 R2 was written in one piece, read in one event and both are recorded.
C11_Witness ==
    /\ enqueued[WriteClient] = R1 \o R2
    /\ wire[WriteClient] = << R1 \o R2 >>
    /\ srv_requests = << [original_data |-> R1], [original_data |-> R2] >>
    /\ srv_buffer = << >>

\* C12: of a well-formed request followed by one that is preceded by bare
\* line feeds or has a tab in or before its method, the first and nothing
\* else is ever recorded, byte for byte, and by the time everything is read
\* the rest was rejected as a parse error, whatever the segment size.
C12_OnlyFirstForwarded ==
    enqueued[WriteClient] \in MalformedPipelined =>
       /\ srv_requests \in { << >>, << [original_data |-> R1] >> }
       /\ srv_err # None =>
             /\ srv_err = "ParseError"
             /\ srv_requests = << [original_data |-> R1] >>
             /\ last_request = [original_data |-> R1]
       /\ SrvAllRead => srv_err = "ParseError"

\* Sent one byte per write: the first request is recorded, the rest refused.
C12_Witness ==
    /\ enqueued[WriteClient] \in MalformedPipelined
    /\ segment_size[WriteClient] = 1
    /\ Len(wire[WriteClient]) = Len(enqueued[WriteClient])
    /\ srv_requests = << [original_data |-> R1] >>
    /\ srv_err = "ParseError"

SmallBody == 40
\* test_big_body_to_chunked, line 82
BigBody == 32 * 4096

BodyLens == (0..MaxBody) \cup { SmallBody, BigBody }

Letters == << "a", "b", "c", "d", "e", "f", "g", "h", "i", "j", "k", "l", "m",
              "n", "o", "p", "q", "r", "s", "t", "u", "v", "w", "x", "y", "z" >>

HexDigits == << "0", "1", "2", "3", "4", "5", "6", "7", "8", "9",
                "A", "B", "C", "D", "E", "F" >>

\* make_body, line 35: chr(i % 26 + ord('a')) for i in range(body_len)
make_body(n) == [i \in 1..n |-> Letters[((i - 1) % 26) + 1]]

\* "%X" % n
RECURSIVE FormatHex(_)
FormatHex(n) ==
    IF n < 16 THEN << HexDigits[n + 1] >>
    ELSE FormatHex(n \div 16) \o << HexDigits[(n % 16) + 1] >>

make_chain_DecimalSize(b) ==
    LET RECURSIVE FormatDec(_)
        \* "%d" % n
        FormatDec(n) ==
            IF n < 10 THEN << HexDigits[n + 1] >>
            ELSE FormatDec(n \div 10) \o << HexDigits[(n % 10) + 1] >>
    IN IF b # << >>
          THEN FormatDec(Len(b)) \o << "CRLF" >> \o b
                  \o << "CRLF", "0", "CRLF", "CRLF" >>
       ELSE << "0", "CRLF", "CRLF" >>

\* make_chain, lines 40-44: chunked_body
make_chain(b) ==
    IF b # << >>
       THEN FormatHex(Len(b)) \o << "CRLF" >> \o b
               \o << "CRLF", "0", "CRLF", "CRLF" >>
    ELSE << "0", "CRLF", "CRLF" >>

IsHex(d) == \E k \in 1..16 : HexDigits[k] = d
HexVal(d) == (CHOOSE k \in 1..16 : HexDigits[k] = d) - 1

\* The chunk-size line that starts at place i: its value and the place after
\* its CRLF.  acc is the value and nd the number of the digits read so far.
RECURSIVE SizeLine(_, _, _, _)
SizeLine(data, i, acc, nd) ==
    IF i > Len(data) THEN [kind |-> "IncompliteMessage", size |-> 0, next |-> i]
    ELSE IF data[i] = "CRLF"
         THEN IF nd = 0 THEN [kind |-> "ParseError", size |-> 0, next |-> i]
              ELSE [kind |-> "size", size |-> acc, next |-> i + 1]
    ELSE IF IsHex(data[i])
         THEN SizeLine(data, i + 1, acc * 16 + HexVal(data[i]), nd + 1)
    ELSE [kind |-> "ParseError", size |-> 0, next |-> i]

\* Chunked decoding from place i on: read a chunk-size line, take that many
\* body bytes, consume the CRLF after them, repeat until the chunk of size
\* zero and the CRLF that ends the body.
RECURSIVE Dechunk(_, _, _, _)
Dechunk(data, i, acc, chunks) ==
    LET s == SizeLine(data, i, 0, 0)
        failed(k) == [kind |-> k, body |-> << >>, chunks |-> 0, consumed |-> 0]
    IN IF s.kind # "size" THEN failed(s.kind)
       ELSE IF s.size = 0
            THEN IF s.next > Len(data) THEN failed("IncompliteMessage")
                 ELSE IF data[s.next] # "CRLF" THEN failed("ParseError")
                 ELSE [kind |-> "Complete", body |-> acc, chunks |-> chunks,
                       consumed |-> s.next]
       ELSE IF s.next + s.size > Len(data) THEN failed("IncompliteMessage")
       ELSE IF data[s.next + s.size] # "CRLF" THEN failed("ParseError")
       ELSE Dechunk(data, s.next + s.size + 1,
                    acc \o SubSeq(data, s.next, s.next + s.size - 1),
                    chunks + 1)

ChunkInit ==
    /\ ClientInit /\ WriteIdle /\ SrvIdle /\ TlsIdle /\ CloseIdle /\ WakeIdle
    /\ OldIdle /\ MtuIdle /\ IfIdle /\ BeIdle
    /\ cpc = "make_body"
    /\ body_len \in BodyLens
    /\ body = << >>
    /\ chunked_body = << >>
    /\ decoded = NoDecoded

clientVars == << state, responses, last_response, nr, request, request_buffer,
                 response_buffer, sock, npeer, peer, stream, err, loopVars,
                 testVars, intime, sent, now >>

\* self.make_body(n), lines 77 and 82
MakeBody ==
    /\ cpc = "make_body"
    /\ body' = make_body(body_len)
    /\ cpc' = "make_chain"
    /\ UNCHANGED << clientVars, writeVars, srvVars, tlsVars, helperVars, closeVars, wakeVars, body_len, chunked_body,
                    decoded >>

\* self.make_chain(body), lines 38-57
MakeChain ==
    /\ cpc = "make_chain"
    /\ chunked_body' = make_chain(body)
    /\ cpc' = "decode"
    /\ UNCHANGED << clientVars, writeVars, srvVars, tlsVars, helperVars, closeVars, wakeVars, body_len, body, decoded >>

\* The receiver parses the chunked body.
Decode ==
    /\ cpc = "decode"
    /\ decoded' = Dechunk(chunked_body, 1, << >>, 0)
    /\ cpc' = "done"
    /\ UNCHANGED << clientVars, writeVars, srvVars, tlsVars, helperVars, closeVars, wakeVars, body_len, body,
                    chunked_body >>

ChunkNext == MakeBody \/ MakeChain \/ Decode

SpecChunk == ChunkInit /\ [][ChunkNext]_vars

\* C14: decoding the chunked encoding of a body gives the body back, with
\* everything consumed: one chunk before the terminator for a body that is
\* not empty; for the empty body the encoding is the terminator alone and
\* the decoding has no chunk.
C14_ChunkedRoundTrip ==
    cpc = "done" =>
       /\ Len(body) = body_len
       /\ decoded.kind = "Complete"
       /\ decoded.body = body
       /\ decoded.consumed = Len(chunked_body)
       /\ decoded.chunks = (IF body_len = 0 THEN 0 ELSE 1)
       /\ body_len = 0 => chunked_body = << "0", "CRLF", "CRLF" >>
       /\ body_len > 0 =>
             chunked_body = FormatHex(body_len) \o << "CRLF" >> \o body
                               \o << "CRLF", "0", "CRLF", "CRLF" >>

\* The body of 40 bytes went through encoding and decoding.
C14_Witness ==
    /\ cpc = "done"
    /\ body_len = SmallBody
    /\ SubSeq(chunked_body, 1, 3) = << "2", "8", "CRLF" >>
    /\ Len(decoded.body) = SmallBody
    /\ decoded.body[SmallBody] = "n"

\* ------------------------------------------------------------------------
\* TlsHandshake (tls/handshake.py): one object and calls of do_12() on it,
\* or the direct calls _do_12_hs() and _do_12_req() inside socket_ctx() as
\* in test_alert.  The server is one of a few kinds; what it answers to a
\* connection that carried a fuzzed record is not determined.
TlsPeers == { "good", "forbids", "nocert", "rejects", "down", "badkex" }

\* test_fuzzing, line 177: inject_rec in xrange(4)
InjectPlaces == 4

GOOD_RESP == "HTTP/1.1 200"

nonTlsVars == << clientVars, writeVars, srvVars, chunkVars, closeVars,
                wakeVars, helperVars >>

\* inject_bad that sends while the counter is one.
inject_bad_OneEarly(inj, fuzz) ==
    IF inj = NoInject \/ ~fuzz THEN [inject |-> inj, send |-> 0]
    ELSE IF inj > 1 THEN [inject |-> inj - 1, send |-> 0]
    ELSE [inject |-> inj, send |-> 1]

\* inject_bad that is disarmed by its first injection.
inject_bad_Disarms(inj, fuzz) ==
    IF inj = NoInject \/ ~fuzz THEN [inject |-> inj, send |-> 0]
    ELSE IF inj > 0 THEN [inject |-> inj - 1, send |-> 0]
    ELSE [inject |-> NoInject, send |-> 1]

\* inject_bad, lines 135-144: the new counter and the number of records sent
inject_bad(inj, fuzz) ==
    IF inj = NoInject \/ ~fuzz THEN [inject |-> inj, send |-> 0]
    ELSE IF inj > 0 THEN [inject |-> inj - 1, send |-> 0]
    ELSE [inject |-> inj, send |-> 1]

\* What recvall may give after the client sent the record of this stage on
\* a connection that carried bad fuzzed records.
Replies(stage, bad) ==
    IF tls_peer = "down" THEN { "socket.error" }
    ELSE IF bad > 0
         THEN { "fatal_alert", "unknown_alert", "warning_alert",
                "socket.error", "empty" }
    ELSE IF stage = "hello"
         THEN IF tls_peer = "nocert" THEN { "empty" }
              ELSE IF tls_peer = "rejects" THEN { "fatal_alert" }
              ELSE { "certificate" }
    ELSE IF stage = "finished" THEN { "finished" }
    ELSE IF ~established THEN { "fatal_alert", "socket.error", "empty" }
    ELSE IF tls_peer = "forbids" THEN { "HTTP/1.1 403" }
    ELSE { "HTTP/1.1 200" }

\* send_recv that raises on every alert.
send_recv_WarningRaises(reply) ==
    IF reply \in { "fatal_alert", "unknown_alert", "warning_alert",
                   "socket.error" }
       THEN [raise |-> "TLSProtocolError", resp |-> None]
    ELSE [raise |-> None, resp |-> reply]

\* send_recv, lines 106-128: an alert whose level is not WARNING and a
\* socket error are raised as TLSProtocolError, anything else is returned.
send_recv(reply) ==
    IF reply \in { "fatal_alert", "unknown_alert", "socket.error" }
       THEN [raise |-> "TLSProtocolError", resp |-> None]
    ELSE [raise |-> None, resp |-> reply]

TlsInit ==
    /\ ClientInit /\ WriteIdle /\ SrvIdle /\ ChunkIdle /\ CloseIdle /\ WakeIdle
    /\ OldIdle /\ MtuIdle /\ IfIdle /\ BeIdle
    /\ tls_pc = "hs_conn"
    /\ tls_caller \in { "do_12", "direct" }
    /\ tls_peer \in TlsPeers
    /\ tls_sock = "none"
    /\ inject \in { NoInject } \cup (0..(InjectPlaces - 1))
    /\ fuzzer \in BOOLEAN
    /\ nfuzzed = 0
    /\ cert = None
    /\ http_resp = None
    /\ hs_ret = None
    /\ tls_ret = None
    /\ randint = "randint"
    /\ established = FALSE
    /\ tls_ncall = 1
    /\ tls_made = FALSE
    /\ tls_nclose = 0
    /\ npoints = 0
    /\ inject0 = inject
    /\ alert_sent = None
    /\ tls_reply = None

\* _do_12_hs, lines 204-207, and conn_estab, lines 96-104: the assertion
\* "not self.sock" fails when self.sock holds a socket, open or closed, and
\* the AssertionError is not caught by "except socket.error"; otherwise the
\* socket is made, assigned to self.sock and connected, and a connect that
\* fails makes _do_12_hs return False.
TlsConnEstab ==
    /\ tls_pc = "hs_conn"
    /\ IF tls_sock # "none"
          THEN /\ tls_ret' = "AssertionError"
               /\ tls_pc' = "close"
               /\ UNCHANGED << tls_sock, tls_made, tls_nclose, hs_ret >>
          ELSE /\ tls_sock' = "open" /\ tls_made' = TRUE /\ tls_nclose' = 0
               /\ tls_ret' = tls_ret
               /\ IF tls_peer = "down"
                     THEN hs_ret' = "False" /\ tls_pc' = "hs_return"
                     ELSE hs_ret' = hs_ret /\ tls_pc' = "hs_hello"
    /\ UNCHANGED << nonTlsVars, tls_caller, tls_peer, inject, fuzzer, nfuzzed,
                    cert, http_resp, randint, established, tls_ncall,
                    npoints, inject0, alert_sent, tls_reply >>

\* _do_12_hs, lines 209-237: ClientHello, the server's answer, certificate
TlsHello ==
    /\ tls_pc = "hs_hello"
    /\ LET ib == inject_bad(inject, fuzzer)
       IN /\ inject' = ib.inject
          /\ nfuzzed' = nfuzzed + ib.send
          /\ npoints' = npoints + 1
          /\ \E reply \in Replies("hello", nfuzzed + ib.send) :
                LET r == send_recv(reply)
                IN /\ tls_reply' = reply
                   /\ IF r.raise # None
                         THEN /\ tls_ret' = r.raise
                              /\ tls_pc' = "close"
                              /\ UNCHANGED << cert, hs_ret >>
                      ELSE IF r.resp # "certificate"
                         THEN /\ hs_ret' = "False"
                              /\ tls_pc' = "hs_return"
                              /\ UNCHANGED << cert, tls_ret >>
                      ELSE /\ cert' = "certificate"
                           /\ tls_pc' = "hs_alert"
                           /\ UNCHANGED << hs_ret, tls_ret >>
    /\ UNCHANGED << nonTlsVars, tlsCallVars, tls_caller, tls_peer, tls_sock,
                    fuzzer, http_resp, randint, established, inject0,
                    alert_sent >>

\* _do_12_hs, lines 240-241: a warning alert before encryption
TlsWarnAlert ==
    /\ tls_pc = "hs_alert"
    /\ tls_pc' = "hs_kex"
    /\ UNCHANGED << nonTlsVars, tlsCallVars, tls_caller, tls_peer, tls_sock,
                    inject, fuzzer, nfuzzed, cert, http_resp, hs_ret, tls_ret,
                    randint, established, npoints, inject0, alert_sent,
                    tls_reply >>

\* _do_12_hs, lines 246-259: the key exchange data are built under the
\* static_rnd mock, then ClientKeyExchange and ChangeCipherSpec are sent.
\* A send on a connection that carried a fuzzed record may fail.
TlsKex ==
    /\ tls_pc = "hs_kex"
    /\ IF tls_peer = "badkex"
          THEN /\ randint' = "static_rnd"
               /\ tls_ret' = "Exception"
               /\ tls_pc' = "close"
               /\ UNCHANGED << inject, nfuzzed, npoints >>
          ELSE LET ib == inject_bad(inject, fuzzer)
               IN /\ randint' = "randint"
                  /\ inject' = ib.inject
                  /\ nfuzzed' = nfuzzed + ib.send
                  /\ npoints' = npoints + 1
                  /\ \E sent_ok \in (IF nfuzzed + ib.send > 0
                                        THEN BOOLEAN ELSE { TRUE }) :
                        IF sent_ok
                           THEN tls_pc' = "hs_fin" /\ tls_ret' = tls_ret
                           ELSE tls_pc' = "close" /\ tls_ret' = "socket.error"
    /\ UNCHANGED << nonTlsVars, tlsCallVars, tls_caller, tls_peer, tls_sock,
                    fuzzer, cert, http_resp, hs_ret, established, inject0,
                    alert_sent, tls_reply >>

\* _do_12_hs, lines 262-275: ClientFinished, the server's answer, return
TlsFinished ==
    /\ tls_pc = "hs_fin"
    /\ LET ib == inject_bad(inject, fuzzer)
       IN /\ inject' = ib.inject
          /\ nfuzzed' = nfuzzed + ib.send
          /\ npoints' = npoints + 1
          /\ \E reply \in Replies("finished", nfuzzed + ib.send) :
                LET r == send_recv(reply)
                IN /\ tls_reply' = reply
                   /\ IF r.raise # None
                         THEN /\ tls_ret' = r.raise
                              /\ tls_pc' = "close"
                              /\ UNCHANGED << hs_ret, established >>
                      ELSE /\ established' = (r.resp = "finished")
                           /\ hs_ret' = "False"
                           /\ tls_pc' = "hs_return"
                           /\ tls_ret' = tls_ret
    /\ UNCHANGED << nonTlsVars, tlsCallVars, tls_caller, tls_peer, tls_sock,
                    fuzzer, cert, http_resp, randint, inject0, alert_sent >>

\* do_12, lines 299-301: the request is made only after a handshake that
\* returned True.  A direct caller (test_alert, lines 152-153) goes on
\* inside its socket_ctx block.
TlsAfterHs ==
    /\ tls_pc = "hs_return"
    /\ IF tls_caller = "do_12"
          THEN IF hs_ret = "True"
                  THEN tls_pc' = "req" /\ tls_ret' = tls_ret
                  ELSE tls_pc' = "close" /\ tls_ret' = "False"
       ELSE /\ tls_pc' = "between"
            /\ tls_ret' = tls_ret
    /\ UNCHANGED << nonTlsVars, tlsCallVars, tls_caller, tls_peer, tls_sock,
                    inject, fuzzer, nfuzzed, cert, http_resp, hs_ret, randint,
                    established, npoints, inject0, alert_sent, tls_reply >>

\* The calls of inject_bad on one connection.
MaxPoints == 5

AlertLevels == { "WARNING", "unknown", "FATAL" }

\* test_alert, lines 154-164: send_12_alert (lines 192-194), then the next
\* _do_12_req.  A server that holds the session closes it on a FATAL alert
\* and ignores the others; a sendall to a server that holds none may fail.
TlsSendAlert(level) ==
    /\ tls_pc = "between"
    /\ npoints < MaxPoints
    /\ alert_sent' = level
    /\ \E sent_ok \in (IF established THEN { TRUE } ELSE BOOLEAN) :
          IF sent_ok
             THEN /\ tls_pc' = "req"
                  /\ tls_ret' = tls_ret
                  /\ established' = (established /\ level # "FATAL")
             ELSE /\ tls_pc' = "close"
                  /\ tls_ret' = "socket.error"
                  /\ established' = established
    /\ UNCHANGED << nonTlsVars, tlsCallVars, tls_caller, tls_peer, tls_sock,
                    inject, fuzzer, nfuzzed, cert, http_resp, hs_ret, randint,
                    npoints, inject0, tls_reply >>

\* A direct caller makes a request with no alert before it, or leaves its
\* socket_ctx block.
TlsBetween ==
    /\ tls_pc = "between"
    /\ alert_sent' = None
    /\ tls_pc' \in (IF npoints < MaxPoints THEN { "req", "close" }
                    ELSE { "close" })
    /\ UNCHANGED << nonTlsVars, tlsCallVars, tls_caller, tls_peer, tls_sock,
                    inject, fuzzer, nfuzzed, cert, http_resp, hs_ret, tls_ret,
                    randint, established, npoints, inject0, tls_reply >>

\* _do_12_req, lines 277-295
TlsReq ==
    /\ tls_pc = "req"
    /\ LET ib == inject_bad(inject, fuzzer)
       IN /\ inject' = ib.inject
          /\ nfuzzed' = nfuzzed + ib.send
          /\ npoints' = npoints + 1
          /\ \E reply \in Replies("request", nfuzzed + ib.send) :
                LET r == send_recv(reply)
                IN /\ tls_reply' = reply
                   /\ IF r.raise # None
                         THEN /\ tls_ret' = r.raise
                              /\ http_resp' = http_resp
                              /\ tls_pc' = "close"
                      ELSE /\ IF r.resp = "empty"
                                 THEN /\ tls_ret' = "False"
                                      /\ http_resp' = http_resp
                              ELSE /\ http_resp' = r.resp
                                   /\ tls_ret' = IF r.resp = GOOD_RESP
                                                    THEN "True" ELSE "False"
                           /\ tls_pc' = IF tls_caller = "direct"
                                           THEN "between" ELSE "close"
    /\ UNCHANGED << nonTlsVars, tlsCallVars, tls_caller, tls_peer, tls_sock,
                    fuzzer, cert, hs_ret, randint, established, inject0,
                    alert_sent >>

\* socket_ctx, lines 89-94: finally self.sock.close()
TlsClose ==
    /\ tls_pc = "close"
    /\ tls_sock' = "closed"
    /\ tls_nclose' = tls_nclose + 1
    /\ tls_pc' = "done"
    /\ UNCHANGED << nonTlsVars, tls_caller, tls_peer, inject, fuzzer, nfuzzed,
                    cert, http_resp, hs_ret, tls_ret, randint, established,
                    tls_ncall, tls_made, npoints, inject0, alert_sent,
                    tls_reply >>

\* The calls made on one object.
MaxCalls == 2

\* test_bad_sni, lines 103-106: the caller calls again on the same object
\* when the call has returned or its exception was handled; the fields of
\* the object stay as the call left them.
TlsAgain ==
    /\ tls_pc = "done"
    /\ tls_ncall < MaxCalls
    /\ tls_ncall' = tls_ncall + 1
    /\ tls_pc' = "hs_conn"
    /\ hs_ret' = None /\ tls_ret' = None
    /\ tls_made' = FALSE
    /\ UNCHANGED << nonTlsVars, tls_caller, tls_peer, tls_sock, inject, fuzzer,
                    nfuzzed, cert, http_resp, randint, established,
                    tls_nclose, npoints, inject0, alert_sent, tls_reply >>

TlsNext ==
    \/ TlsConnEstab
    \/ TlsHello
    \/ TlsWarnAlert
    \/ TlsKex
    \/ TlsFinished
    \/ TlsAfterHs
    \/ \E level \in AlertLevels : TlsSendAlert(level)
    \/ TlsBetween
    \/ TlsReq
    \/ TlsClose
    \/ TlsAgain

SpecTls == TlsInit /\ [][TlsNext]_vars

\* C20: with a server that completes the handshake and answers the request
\* with "HTTP/1.1 200", and no fuzzed record sent, _do_12_hs() returns True
\* and do_12() returns True.
C20_GoodHandshakeReturnsTrue ==
    (tls_pc = "done" /\ tls_peer = "good" /\ nfuzzed = 0) =>
        /\ hs_ret = "True"
        /\ tls_caller = "do_12" => tls_ret = "True"

\* ------------------------------------------------------------------------
\* A response framed by the close of the connection
\* (msg_modification/tests_encode_to_chunked.py, create_servers: the server
\* sends no Content-Length and no chunked encoding and closes the connection
\* when the response is sent).  The receiving endpoint is started and has
\* made its request; the peer sends the status line, the headers and some
\* body bytes, in fragments, and closes at some point.
MaxCloseBody == 3

BodyBytes == { "x", "y" }

RECURSIVE BodiesOf(_)
BodiesOf(n) ==
    IF n = 0 THEN { << >> }
    ELSE { b \o << x >> : b \in BodiesOf(n - 1), x \in BodyBytes }

CloseStreams ==
    { << "H", "LN" >> \o b : b \in UNION { BodiesOf(n) : n \in 0..MaxCloseBody } }

CloseInit ==
    /\ state = [c \in Clients |->
                   IF c = FragClient THEN STATE_STARTED ELSE STATE_IDLE]
    /\ responses = << >>
    /\ last_response = [c \in Clients |-> NoResponse]
    /\ nr = [c \in Clients |-> 0]
    /\ request = [c \in Clients |-> IF c = FragClient THEN "GET" ELSE None]
    /\ request_buffer = [c \in Clients |->
                            IF c = FragClient THEN << "GET" >> ELSE << >>]
    /\ response_buffer = [c \in Clients |-> << >>]
    /\ sock = [c \in Clients |-> << >>]
    /\ npeer = 0
    /\ peer = [c \in Clients |-> "silent"]
    /\ \E B \in CloseStreams :
          stream = [c \in Clients |-> IF c = FragClient THEN B ELSE << >>]
    /\ err = [c \in Clients |-> None]
    /\ elpc = "poll" /\ elc = None /\ elresp = NoResponse
    /\ tpc = "ready" /\ tc = None /\ tmeth = None
    /\ t0 = 0 /\ timeout = 0
    /\ wres = None
    /\ intime = FALSE
    /\ sent = [c \in Clients |-> IF c = FragClient THEN 1 ELSE 0]
    /\ now = 0
    /\ WriteIdle /\ SrvIdle /\ ChunkIdle /\ TlsIdle /\ CloseIdle /\ WakeIdle
    /\ OldIdle /\ MtuIdle /\ IfIdle /\ BeIdle

\* The peer closes the connection; what it has not sent is never sent.
PeerClose ==
    /\ ~peer_closed
    /\ peer_closed' = TRUE
    /\ UNCHANGED << clientVars, writeVars, srvVars, chunkVars, tlsVars, helperVars,
                    wakeVars, close_seen >>

\* The parse once the transport has delivered the close: what has arrived
\* after headers without framing is the whole body.
ResponseAtClose(buffer, method) ==
    IF Len(buffer) >= 2 /\ buffer[1] = "H" /\ buffer[2] = "LN"
       THEN [kind |-> "Complete", msg |-> buffer]
    ELSE Response(buffer, method)

\* The transport delivers the close to the endpoint, after everything that
\* arrived before it was read; a response completed by it is recorded.
HandleClose(c) ==
    /\ elpc = "poll"
    /\ state[c] = STATE_STARTED
    /\ err[c] = None
    /\ peer_closed /\ ~close_seen
    /\ sock[c] = << >>
    /\ close_seen' = TRUE
    /\ LET r == ResponseAtClose(response_buffer[c], request[c])
       IN IF r.kind = "Complete"
             THEN /\ response_buffer' =
                        [response_buffer EXCEPT ![c] = Drop(@, Len(r.msg))]
                  /\ elpc' = "append"
                  /\ elc' = c
                  /\ elresp' = [msg |-> r.msg, oid |-> Len(responses) + 1]
          ELSE UNCHANGED << response_buffer, loopVars >>
    /\ UNCHANGED << writeVars, srvVars, chunkVars, tlsVars, helperVars, wakeVars,
                    peer_closed, state, responses, last_response, nr, request,
                    request_buffer, sock, npeer, peer, stream, err, testVars,
                    intime, sent, now >>

CloseNext ==
    \/ \E k \in 1..(2 + MaxCloseBody) : ~peer_closed /\ FragDeliver(k)
    \/ PeerClose
    \/ HandleRead(FragClient)
    \/ HandleClose(FragClient)
    \/ RecieveAppend
    \/ RecieveSetLast

SpecClose == CloseInit /\ [][CloseNext]_vars

\* C21: for a response with neither Content-Length nor chunked encoding no
\* response is completed or recorded, and no error raised, before the close
\* is delivered, however many body bytes have arrived; the response recorded
\* after the close is every byte the peer sent before closing.
C21_CloseDelimited ==
    /\ ~close_seen =>
          /\ elpc = "poll"
          /\ responses = << >>
          /\ err[FragClient] = None
          /\ response_buffer[FragClient] \o sock[FragClient]
                = SubSeq(stream[FragClient], 1, npeer)
    /\ responses # << >> =>
          /\ close_seen
          /\ Len(responses) = 1
          /\ responses[1].msg = SubSeq(stream[FragClient], 1, npeer)

\* The headers and a body of MaxCloseBody bytes arrived while the connection
\* was open, and the response was recorded after the close.
C21_Witness ==
    /\ close_seen
    /\ Len(responses) = 1
    /\ Len(responses[1].msg) = 2 + MaxCloseBody
    /\ last_response[FragClient] = responses[1]

\* ------------------------------------------------------------------------
\* The read path of one client fed with any bytes.  The client is started
\* and makes a request, before or after the first bytes arrive; the peer
\* sends bytes one at a time, and one read receives what has arrived.
ReadClient == "clnt1"

MaxRead == 4

\* "x" is a body byte.
ReadBytes == { "H", "L0", "L1", "x", "T" }

\* The peer sends one more byte, whatever it is.
ReadPeerSend(b) ==
    /\ state[ReadClient] = STATE_STARTED
    /\ err[ReadClient] = None
    /\ npeer < MaxRead
    /\ sock' = [sock EXCEPT ![ReadClient] = Append(@, b)]
    /\ stream' = [stream EXCEPT ![ReadClient] = Append(@, b)]
    /\ npeer' = npeer + 1
    /\ UNCHANGED << extVars, peer, state, responses, last_response, nr,
                    request, request_buffer, response_buffer, err, loopVars,
                    testVars, intime, sent, now >>

ReadNext ==
    \/ Start(ReadClient)
    \/ sent[ReadClient] = 0 /\ MakeRequest(ReadClient, R1)
    \/ \E b \in ReadBytes : ReadPeerSend(b)
    \/ HandleRead(ReadClient)
    \/ RecieveAppend
    \/ RecieveSetLast

SpecRead == Init /\ [][ReadNext]_vars

\* The parser's answer for the buffer handle_read parses for client c.
Parsed(c) == Response(ParsedBuffer(c), request[c])

\* C22: a read that leaves the buffer empty, and a read after which the
\* buffered bytes are no complete response, raise nothing, record nothing,
\* leave last_response alone and keep every buffered byte, in order, in
\* response_buffer; an empty buffer is not parsed, so the read raises nothing
\* even before the first make_request.
C22_IncompleteConsumesNothing ==
    [][\A c \in Clients :
          (/\ HandleRead(c)
           /\ \/ ParsedBuffer(c) = << >>
              \/ /\ request[c] # None
                 /\ Parsed(c).kind = "IncompliteMessage") =>
              /\ err'[c] = None
              /\ elpc' = "poll"
              /\ response_buffer'[c] = ParsedBuffer(c)
              /\ sock'[c] = << >>
              /\ responses' = responses
              /\ last_response' = last_response]_vars

\* A status line arrived in one read, the headers in the next, and the body
\* byte they announce is still missing.
C22_Witness ==
    /\ response_buffer[ReadClient] = << "H", "L1" >>
    /\ sock[ReadClient] = << >>
    /\ err[ReadClient] = None
    /\ responses = << >>
    /\ last_response[ReadClient] = NoResponse

\* C23: a complete response is a prefix of the buffer, no longer than the
\* buffer; handle_read removes exactly that prefix; and the buffer of a
\* client is empty while its response is recorded and when it has been.
C23_ConsumedIsPrefix ==
    [][/\ \A c \in Clients :
             (/\ HandleRead(c)
              /\ request[c] # None
              /\ Parsed(c).kind = "Complete") =>
                 /\ Len(Parsed(c).msg) <= Len(ParsedBuffer(c))
                 /\ Parsed(c).msg
                       = SubSeq(ParsedBuffer(c), 1, Len(Parsed(c).msg))
                 /\ response_buffer'[c]
                       = Drop(ParsedBuffer(c), Len(Parsed(c).msg))
       /\ elpc' # "poll" =>
             (response_buffer'[elc'] = << >> /\ elresp'.msg # << >>)
       /\ (elpc = "setlast" /\ elpc' = "poll") =>
             response_buffer'[elc] = << >>]_vars

\* A response of three bytes that arrived in pieces was recorded, and more
\* bytes came after it.
C23_Witness ==
    /\ Len(responses) = 1
    /\ responses[1].msg = << "H", "L1", "x" >>
    /\ last_response[ReadClient] = responses[1]
    /\ response_buffer[ReadClient] = << "H" >>
    /\ elpc = "poll"

\* The complete responses at the front of a byte sequence, parsed one after
\* the other until the parser reports an incomplete message or an error.
RECURSIVE CompleteMsgs(_)
CompleteMsgs(buffer) ==
    LET r == Response(buffer, "GET")
    IN IF r.kind = "Complete"
          THEN << r.msg >> \o CompleteMsgs(Drop(buffer, Len(r.msg)))
       ELSE << >>

\* C24: once a client that had made its request has read everything its
\* peer sent, every complete response among those bytes has been recorded,
\* once and in the order of arrival.
C24_EveryCompleteRecorded ==
    \A c \in Clients :
        (/\ elpc = "poll"
         /\ sock[c] = << >>
         /\ request[c] # None
         /\ err[c] # "AttributeError") =>
            Msgs(responses) = CompleteMsgs(stream[c])

\* C25: a read that finds bytes after a complete response raises the
\* garbage error and records nothing: the event loop does not go on to
\* recieve_response, responses and last_response are as before, and
\* response_buffer holds the bytes after the parsed response and nothing of
\* the response itself; nothing is recorded for that client later either.
C25_GarbageRecordsNothing ==
    [][\A c \in Clients :
          /\ (/\ HandleRead(c)
              /\ request[c] # None
              /\ Parsed(c).kind = "Complete"
              /\ Len(ParsedBuffer(c)) > Len(Parsed(c).msg)) =>
                 /\ err'[c] = "Garbage"
                 /\ elpc' = "poll" /\ elresp' = NoResponse
                 /\ responses' = responses
                 /\ last_response' = last_response
                 /\ response_buffer'[c] # << >>
                 /\ Parsed(c).msg \o response_buffer'[c] = ParsedBuffer(c)
          /\ err[c] = "Garbage" =>
                 /\ err'[c] = "Garbage"
                 /\ responses' = responses
                 /\ last_response'[c] = last_response[c]
                 /\ response_buffer'[c] = response_buffer[c]]_vars

\* Two responses arrived together: the first was parsed and dropped, the
\* second is what the buffer holds, and neither is recorded.
C25_Witness ==
    /\ err[ReadClient] = "Garbage"
    /\ stream[ReadClient] = << "H", "L0", "H", "L0" >>
    /\ response_buffer[ReadClient] = << "H", "L0" >>
    /\ responses = << >>
    /\ last_response[ReadClient] = NoResponse

\* ------------------------------------------------------------------------
\* One client between its test thread and the event loop.  The test thread
\* calls make_request and wait_for_response; make_request runs statement by
\* statement, and the event loop may write, read and record between any two
\* of them.  The peer answers a request once it has received it whole, with
\* one response, and answers in the order of the requests.
WakeClient == "clnt1"

MakeRequestOrder_BufferFirst == << "request_buffer", "nr", "request" >>

\* make_request: line 59 (self.nr), then line 41 (self.request), then
\* line 42 (self.request_buffer)
MakeRequestOrder == << "nr", "request", "request_buffer" >>

\* The positions of the test thread before each of the three statements.
MrPc == << "mr1", "mr2", "mr3" >>

\* The test thread enters make_request, line 58.
WakeCall(c, m) ==
    /\ tpc = "ready"
    /\ SentTotal < MaxRequests
    /\ tpc' = MrPc[1] /\ tc' = c /\ tmeth' = m
    /\ wres' = None /\ t0' = 0 /\ timeout' = 0 /\ intime' = FALSE
    /\ UNCHANGED << extVars, state, responses, last_response, nr, request,
                    request_buffer, response_buffer, sock, npeer, peer,
                    stream, err, loopVars, sent, now >>

\* The i-th statement of make_request.
WakeStep(i) ==
    /\ tpc = MrPc[i]
    /\ LET op == MakeRequestOrder[i]
       IN /\ nr' = IF op = "nr" THEN [nr EXCEPT ![tc] = Len(responses)]
                   ELSE nr
          /\ captured' = IF op = "nr" THEN [captured EXCEPT ![tc] = @ + 1]
                         ELSE captured
          /\ request' = IF op = "request" THEN [request EXCEPT ![tc] = tmeth]
                        ELSE request
          /\ request_buffer' =
                IF op = "request_buffer"
                   THEN [request_buffer EXCEPT
                            ![tc] = BaseMakeRequest(@, << tmeth >>)]
                ELSE request_buffer
          /\ sent' = IF op = "request_buffer" THEN [sent EXCEPT ![tc] = @ + 1]
                     ELSE sent
    /\ IF i = Len(MrPc)
          THEN tpc' = "ready" /\ tc' = None /\ tmeth' = None
          ELSE tpc' = MrPc[i + 1] /\ UNCHANGED << tc, tmeth >>
    /\ UNCHANGED << writeVars, srvVars, chunkVars, tlsVars, helperVars, closeVars,
                    written, state, responses, last_response,
                    response_buffer, sock, npeer, peer, stream, err,
                    loopVars, t0, timeout, wres, intime, now >>

\* The number of responses the peer has sent: each is two bytes here.
PeerReplies == npeer \div 2

\* The peer answers the next request it has received.
PeerReply(c) ==
    /\ state[c] = STATE_STARTED
    /\ err[c] = None
    /\ PeerReplies < Len(written[c])
    /\ sock' = [sock EXCEPT ![c] = @ \o << "H", "L0" >>]
    /\ npeer' = npeer + 2
    /\ UNCHANGED << extVars, peer, stream, state, responses, last_response,
                    nr, request, request_buffer, response_buffer, err,
                    loopVars, testVars, intime, sent, now >>

WakeNext ==
    \/ Start(WakeClient)
    \/ Stop(WakeClient)
    \/ \E m \in Methods : WakeCall(WakeClient, m)
    \/ \E i \in 1..Len(MrPc) : WakeStep(i)
    \/ \E to \in 0..MaxTimeout : WaitBegin(WakeClient, to)
    \/ WaitCond
    \/ WaitTime
    \/ Tick
    \/ HandleWrite(WakeClient)
    \/ PeerReply(WakeClient)
    \/ HandleRead(WakeClient)
    \/ RecieveAppend
    \/ RecieveSetLast

SpecWake == Init /\ [][WakeNext]_vars

\* The request the i-th recorded response answers: the responses of the one
\* connection are recorded in the order sent, and none is passed over.
AnswerTo(c, i) == written[c][i]

\* The response to the last request of c has been recorded.
ReplyCounted(c) ==
    \E i \in 1..Len(responses) :
        i <= Len(written[c]) /\ AnswerTo(c, i) = sent[c]

\* C26: a response is read only when self.request is set; the response to
\* a request is recorded only after make_request has captured nr for that
\* request, so it raises the count above nr; and a wait that checks the
\* count when the response to the last request has been recorded returns
\* True.
C26_NoLostWakeup ==
    [][\A c \in Clients :
          /\ err'[c] # "AttributeError"
          /\ (elpc = "append" /\ elpc' = "setlast" /\ elc = c
                 /\ Len(responses') <= Len(written[c])) =>
                /\ captured[c] >= AnswerTo(c, Len(responses'))
                /\ (AnswerTo(c, Len(responses')) = captured[c]) =>
                      Len(responses') > nr[c]
          /\ (tpc = "w_cond" /\ tc = c /\ ReplyCounted(c)) =>
                (tpc' # "w_cond" => (tpc' = "ready" /\ wres' = "True"))]_vars

\* The response to the second request was recorded after nr was captured
\* for it, and the wait that followed returned True.
C26_Witness ==
    /\ sent[WakeClient] = 2
    /\ captured[WakeClient] = 2
    /\ written[WakeClient] = << 1, 2 >>
    /\ Len(responses) = 2
    /\ nr[WakeClient] = 1
    /\ wres = "True"
    /\ state[WakeClient] = STATE_STARTED

\* C27: a wait returns True only when a response to the last request has
\* been recorded since that request captured nr.
C27_WaitCorrelates ==
    [][(WaitReturns /\ wres' = "True") =>
          \E i \in (nr[tc] + 1)..Len(responses) :
              i <= Len(written[tc]) /\ AnswerTo(tc, i) = sent[tc]]_vars

\* C28: wait_for_response on a client that is not started returns False in
\* the call itself: the thread does not enter the loop, no time passes and
\* nothing else changes, whatever has been recorded.
C28_WaitNotStarted ==
    [][\A c \in Clients : \A to \in 0..MaxTimeout :
          (WaitBegin(c, to) /\ state[c] # STATE_STARTED) =>
              /\ wres' = "False"
              /\ tpc' = "ready"
              /\ now' = now
              /\ UNCHANGED << state, responses, last_response, nr >>]_vars

\* A response was recorded after the last make_request, the client was
\* stopped, and the wait returned False before any time had passed.
C28_Witness ==
    /\ state[WakeClient] = STATE_STOPPED
    /\ Len(responses) > nr[WakeClient]
    /\ sent[WakeClient] > 0
    /\ wres = "False"
    /\ tpc = "ready"
    /\ now = 0

\* C29: a second do_12() on the same object makes a new connection and
\* runs the handshake on it; when the server rejects the handshake (and no
\* fuzzed record was sent) the call raises TLSProtocolError.
C29_RepeatedHandshake ==
    (tls_pc = "done" /\ tls_caller = "do_12" /\ tls_ncall >= 2) =>
        /\ tls_made
        /\ (tls_peer = "rejects" /\ nfuzzed = 0) =>
              tls_ret = "TLSProtocolError"

\* C30: when do_12() has returned or raised, the socket in self.sock is
\* closed and close() was called on it once; the socket a call has made is
\* open, and never closed, until the call ends.
C30_SocketClosedOnce ==
    tls_caller = "do_12" =>
        /\ tls_pc = "done" => (tls_sock = "closed" /\ tls_nclose = 1)
        /\ (tls_made /\ tls_pc # "done") =>
              (tls_sock = "open" /\ tls_nclose = 0)
\* C31: inject_bad is called before ClientHello, before ClientKeyExchange
\* and before Finished, in this order, and before each HTTP request.  With
\* inject = k and a fuzzer, no fuzzed record is sent at the first k of these
\* points of a connection and one is sent at the (k+1)-th; with inject None
\* or without a fuzzer no record is ever taken from the fuzzer.
C31_InjectAfterKRecords ==
    [][ (npoints' = npoints + 1) =>
          /\ tls_pc \in { "hs_hello", "hs_kex", "hs_fin", "req" }
          /\ tls_pc = "hs_hello" => npoints' = 1
          /\ tls_pc = "hs_kex" => npoints' = 2
          /\ tls_pc = "hs_fin" => npoints' = 3
          /\ IF inject0 = NoInject \/ ~fuzzer
                THEN nfuzzed' = 0 /\ inject' = inject0
             ELSE /\ npoints' <= inject0 => nfuzzed' = 0
                  /\ npoints' = inject0 + 1 => (nfuzzed = 0 /\ nfuzzed' = 1)
      ]_vars

\* the fourth injection point, before the HTTP request, with inject = 3
C31_Witness ==
    /\ fuzzer /\ inject0 = 3
    /\ npoints = 4
    /\ nfuzzed = 1
    /\ tls_reply \in { "fatal_alert", "socket.error", "empty" }

\* C32: the injection counter is never negative, and on a connection that
\* has reached p injection points with inject initially k the number of
\* fuzzed records sent is max(0, p - k): the counter stays at 0 and every
\* later point sends one more.
C32_InjectCounter ==
    inject0 # NoInject =>
        /\ inject >= 0
        /\ fuzzer => /\ nfuzzed = IF npoints > inject0
                                     THEN npoints - inject0 ELSE 0
                     /\ inject = IF npoints > inject0
                                    THEN 0 ELSE inject0 - npoints
        /\ ~fuzzer => (nfuzzed = 0 /\ inject = inject0)

\* a second and a third fuzzed record after the counter reached 0
C32_Witness ==
    /\ fuzzer /\ inject0 = 1
    /\ inject = 0
    /\ npoints = 4
    /\ nfuzzed = 3

\* C33: send_recv raises TLSProtocolError for an alert whose level is not
\* WARNING and for a socket error, and returns the response when the alert
\* is a WARNING; the _do_12_req that follows a FATAL alert of the client
\* does not return True, and the one that follows a WARNING or an unknown
\* alert on an established connection to a good server returns True.
C33_SendRecvClassifies ==
    [][ (tls_pc \in { "hs_hello", "hs_fin", "req" }) =>
          /\ tls_reply' \in { "fatal_alert", "unknown_alert", "socket.error" }
                => tls_ret' = "TLSProtocolError"
          /\ tls_reply' = "warning_alert" =>
                /\ tls_ret' # "TLSProtocolError"
                /\ tls_pc = "req" =>
                      (http_resp' = "warning_alert" /\ tls_ret' = "False")
          /\ (tls_pc = "req" /\ alert_sent = "FATAL") => tls_ret' # "True"
          /\ ( /\ tls_pc = "req"
               /\ alert_sent \in { "WARNING", "unknown" }
               /\ established /\ tls_peer = "good" /\ nfuzzed' = 0 )
                => tls_ret' = "True"
      ]_vars

\* a request that returned True, then a FATAL alert, then a request that
\* raised on the closed connection
C33_Witness ==
    /\ alert_sent = "FATAL"
    /\ http_resp = GOOD_RESP
    /\ tls_reply = "socket.error"
    /\ tls_ret = "TLSProtocolError"
    /\ tls_pc = "close"
    /\ nfuzzed = 0

\* C34: when a call has ended, by return or by exception, random.randint
\* is the function it was before the call.
C34_RandintRestored ==
    tls_pc \in { "close", "done" } => randint = "randint"

\* ------------------------------------------------------------------------
\* TlsHandshakeStandard (tls/handshake.py, lines 304-355): do_old() tries
\* TLS 1.0 and TLS 1.1 in turn.  The server may refuse the handshake or
\* complete it, may log handshake warnings meanwhile, and answers the
\* request with anything; a response is the sequence of its pieces, the
\* first being what a status line begins with.

\* do_old, line 352
OldVersions == << "PROTOCOL_TLSv1", "PROTOCOL_TLSv1_1" >>

\* The warnings logged while one version is tried.
MaxWarns == 2

\* try_tls_vers that accepts any number of new warnings.
try_tls_vers_AnyWarning(warns, count, wrapped, resp) ==
    IF ~wrapped
       THEN count > warns
    ELSE ~(Len(resp) > 0 /\ resp[1] = GOOD_RESP)

\* try_tls_vers, lines 321-341: warns is the count taken before the connect
\* (line 321), count the one taken after the IOError (line 330), wrapped
\* tells that wrap_socket returned, resp is what recv(100) gave.
try_tls_vers(warns, count, wrapped, resp) ==
    IF ~wrapped
       THEN count = warns + 1
    ELSE ~(Len(resp) > 0 /\ resp[1] = GOOD_RESP)

OldInit ==
    /\ ClientInit /\ WriteIdle /\ SrvIdle /\ ChunkIdle /\ TlsIdle
    /\ CloseIdle /\ WakeIdle /\ MtuIdle /\ IfIdle /\ BeIdle
    /\ dmesg_warns \in 0..1
    /\ hs_std = [pc |-> "loop", version |-> 1, tried |-> << >>, ret |-> None]

\* do_old, lines 352-355: one turn of the loop, with the whole call of
\* try_tls_vers (lines 315-341).  A connect that fails raises socket.error,
\* which nothing catches.
OldTry ==
    /\ hs_std.pc = "loop"
    /\ \E connected \in BOOLEAN, wrapped \in BOOLEAN, k \in 0..MaxWarns :
       \E resp \in (IF connected /\ wrapped
                       THEN { << >>, << GOOD_RESP >>, << GOOD_RESP, " OK" >>,
                              << "HTTP/1.1 403" >>, << "HTTP/1.", "1 200" >> }
                    ELSE { << >> }) :
          IF ~connected
             THEN /\ k = 0
                  /\ dmesg_warns' = dmesg_warns
                  /\ hs_std' = [hs_std EXCEPT !.pc = "done",
                                              !.ret = "socket.error"]
          ELSE LET res == try_tls_vers(dmesg_warns, dmesg_warns + k,
                                       wrapped, resp)
                   last == hs_std.version = Len(OldVersions)
               IN /\ dmesg_warns' = dmesg_warns + k
                  /\ hs_std' =
                        [pc |-> IF res /\ ~last THEN "loop" ELSE "done",
                         version |-> IF res /\ ~last
                                        THEN hs_std.version + 1
                                     ELSE hs_std.version,
                         tried |-> Append(hs_std.tried,
                                          [version |-> OldVersions[hs_std.version],
                                           wrapped |-> wrapped, new |-> k,
                                           resp |-> resp, res |-> res]),
                         ret |-> IF ~res THEN "False"
                                 ELSE IF last THEN "True" ELSE None]
    /\ UNCHANGED << clientVars, writeVars, srvVars, chunkVars, tlsVars,
                    closeVars, wakeVars, dev_mtu, flow, ifaces, nginx >>

SpecOld == OldInit /\ [][OldTry]_vars

\* C35: try_tls_vers returns True for a version when the handshake fails
\* and exactly one warning was logged since before the connect, or when the
\* handshake succeeds and the reply does not begin "HTTP/1.1 200", and False
\* otherwise; do_old() stops at the first version that gives False and
\* returns True if and only if TLS 1.0 and TLS 1.1 both gave True.
C35_OldRefused ==
    LET tried == hs_std.tried
        Refused(t) == \/ ~t.wrapped /\ t.new = 1
                      \/ t.wrapped /\ (t.resp = << >> \/ Head(t.resp) # GOOD_RESP)
    IN /\ \A i \in 1..Len(tried) :
             /\ tried[i].res = Refused(tried[i])
             /\ tried[i].version = OldVersions[i]
             /\ i < Len(tried) => tried[i].res
       /\ hs_std.ret = "True" <=>
             (Len(tried) = 2 /\ Refused(tried[1]) /\ Refused(tried[2]))
       /\ hs_std.ret = "False" <=>
             (Len(tried) >= 1 /\ ~Refused(tried[Len(tried)]))
       /\ hs_std.pc = "done" <=> hs_std.ret # None

\* TLS 1.0 refused with one warning, TLS 1.1 accepted but the request was
\* answered with 403
C35_Witness ==
    /\ hs_std.ret = "True"
    /\ ~hs_std.tried[1].wrapped /\ hs_std.tried[1].new = 1
    /\ hs_std.tried[2].wrapped
    /\ hs_std.tried[2].resp = << "HTTP/1.1 403" >>

\* ------------------------------------------------------------------------
\* tcp_flow_check (tls/test_tls_integrity.py, lines 85-112) sets the MTU of
\* the client's device with sysnet.change_mtu and restores it in mtu_ctx.
\* Each command that change_mtu runs on the node may fail.

\* tcp_flow_check, line 103
FlowMtu == 1500

\* change_mtu, lines 91-102, and get_mtu, lines 82-88, on a device whose MTU
\* is dev: the MTU of the device afterwards, the value returned and the
\* exception raised.  fails names the command that fails, if any.  A failed
\* command raises Error, and its handler (lines 88, 98-99) formats the
\* message with the undefined name ip, so NameError leaves the function.
change_mtu(dev, mtu, fails) ==
    IF fails \in { "get_prev", "set" }
       THEN [dev |-> dev, ret |-> 0, exc |-> "NameError"]
    ELSE IF fails = "get_new"
       THEN [dev |-> mtu, ret |-> 0, exc |-> "NameError"]
    ELSE [dev |-> mtu, ret |-> dev, exc |-> None]

MtuInit ==
    /\ ClientInit /\ WriteIdle /\ SrvIdle /\ ChunkIdle /\ TlsIdle
    /\ CloseIdle /\ WakeIdle /\ OldIdle /\ IfIdle /\ BeIdle
    /\ dev_mtu \in { 68, 576, 1280, 1400, 1492, 1500, 4096, 9000, 65535 }
    /\ flow = [pc |-> "start", before |-> dev_mtu, prev_mtu |-> 0,
               exit |-> None]

\* tcp_flow_check, lines 97-105: route_dst_ip and the first change_mtu.
\* Only Error is caught and turned into a test failure.
FlowSetMtu ==
    /\ flow.pc = "start"
    /\ \E fails \in { "route", "get_prev", "set", "get_new", "none" } :
          IF fails = "route"
             THEN /\ flow' = [flow EXCEPT !.pc = "exit", !.exit = "fail"]
                  /\ dev_mtu' = dev_mtu
          ELSE LET r == change_mtu(dev_mtu, FlowMtu, fails)
               IN /\ dev_mtu' = r.dev
                  /\ flow' = IF r.exc # None
                                THEN [flow EXCEPT !.pc = "exit",
                                                  !.exit = r.exc]
                             ELSE [flow EXCEPT !.pc = "body",
                                               !.prev_mtu = r.ret]
    /\ UNCHANGED << clientVars, writeVars, srvVars, chunkVars, tlsVars,
                    closeVars, wakeVars, dmesg_warns, hs_std, ifaces, nginx >>

\* tcp_flow_check, lines 107-112: the body of the with statement returns,
\* fails an assertion or raises.
FlowBody ==
    /\ flow.pc = "body"
    /\ \E how \in { "return", "AssertionError", "Exception" } :
          flow' = [flow EXCEPT !.pc = "restore", !.exit = how]
    /\ UNCHANGED << clientVars, writeVars, srvVars, chunkVars, tlsVars,
                    closeVars, wakeVars, dmesg_warns, hs_std, dev_mtu,
                    ifaces, nginx >>

\* mtu_ctx, lines 78-83: finally change_mtu(node, dev, prev_mtu); an
\* exception of this call replaces the way the body ended.
FlowRestore ==
    /\ flow.pc = "restore"
    /\ \E fails \in { "get_prev", "set", "get_new", "none" } :
          LET r == change_mtu(dev_mtu, flow.prev_mtu, fails)
          IN /\ dev_mtu' = r.dev
             /\ flow' = [flow EXCEPT
                            !.pc = "exit",
                            !.exit = IF r.exc # None THEN "restore failed"
                                     ELSE @]
    /\ UNCHANGED << clientVars, writeVars, srvVars, chunkVars, tlsVars,
                    closeVars, wakeVars, dmesg_warns, hs_std, ifaces, nginx >>

SpecMtu == MtuInit /\ [][FlowSetMtu \/ FlowBody \/ FlowRestore]_vars

\* C36: change_mtu returns the MTU the device had before the call, and on
\* every exit of tcp_flow_check, the restoring call itself failing apart,
\* the MTU of the device is what it was before the check.
C36_MtuRestored ==
    /\ flow.pc \in { "body", "restore" } => flow.prev_mtu = flow.before
    /\ (flow.pc = "exit" /\ flow.exit # "restore failed")
          => dev_mtu = flow.before

\* ------------------------------------------------------------------------
\* helpers/sysnet.py: interface aliases.  An address in dotted form is the
\* sequence of its four octets; the 32-bit number of an address is kept as
\* its two 16-bit halves, the most significant first.

\* The aliases asked for in one call.
MaxIfaces == 3

\* lines 4-8: the names the module sysnet imports
SysnetNames == { "socket", "struct", "remote", "Error" }

\* ip_str_to_number, lines 15-18: inet_aton, then unpack("!L")
ip_str_to_number(ip_addr) ==
    << ip_addr[1] * 256 + ip_addr[2], ip_addr[3] * 256 + ip_addr[4] >>

\* ip_number_to_str, lines 21-24: pack("!L") takes a number below 2^32
\* (struct.error otherwise, no address), then inet_ntoa
ip_number_to_str(ip_addr) ==
    IF ip_addr[1] > 65535 THEN << >>
    ELSE << ip_addr[1] \div 256, ip_addr[1] % 256,
            ip_addr[2] \div 256, ip_addr[2] % 256 >>

\* create_interface, lines 27-43: the address of the alias, what it returns
\* and the exception that leaves it.  tf_cfg.dbg is called at line 38 inside
\* the try and again at line 41 inside the bare except, and sysnet imports
\* no tf_cfg: the NameError of line 38 is caught, that of line 41 is not,
\* and the command of line 39 is never run.
create_interface(iface_id, base_iface_name, base_ip) ==
    LET base_ip_addr == ip_str_to_number(base_ip)
        low == base_ip_addr[2] + iface_id
        iface_ip_addr == << base_ip_addr[1] + low \div 65536, low % 65536 >>
        iface_ip == ip_number_to_str(iface_ip_addr)
    IN IF iface_ip = << >>
          THEN [exc |-> "struct.error", iface |-> << >>, ip |-> << >>]
       ELSE IF "tf_cfg" \notin SysnetNames
          THEN [exc |-> "NameError", iface |-> << >>, ip |-> << >>]
       ELSE [exc |-> None, iface |-> << base_iface_name, iface_id >>,
             ip |-> iface_ip]

\* create_interfaces, lines 56-62: the loop from alias i on, ips being the
\* addresses collected so far
RECURSIVE create_interfaces(_, _, _, _, _)
create_interfaces(base_interface_name, base_interface_ip, number_of_ip, i, ips) ==
    IF i >= number_of_ip THEN [exc |-> None, ips |-> ips]
    ELSE LET r == create_interface(i, base_interface_name, base_interface_ip)
         IN IF r.exc # None THEN [exc |-> r.exc, ips |-> << >>]
            ELSE create_interfaces(base_interface_name, base_interface_ip,
                                   number_of_ip, i + 1, Append(ips, r.ip))

IfInit ==
    /\ ClientInit /\ WriteIdle /\ SrvIdle /\ ChunkIdle /\ TlsIdle
    /\ CloseIdle /\ WakeIdle /\ OldIdle /\ MtuIdle /\ BeIdle
    /\ \E a \in { 10, 255 }, b \in { 0, 255 }, c \in { 0, 255 },
          d \in { 0, 1, 254, 255 }, n \in 0..MaxIfaces :
          ifaces = [pc |-> "call", base_ip |-> << a, b, c, d >>, n |-> n,
                    ips |-> << >>, exc |-> None]

\* A call of create_interfaces("eth0", base_ip, n).
IfCall ==
    /\ ifaces.pc = "call"
    /\ LET r == create_interfaces("eth0", ifaces.base_ip, ifaces.n, 0, << >>)
       IN ifaces' = [ifaces EXCEPT !.pc = "done", !.ips = r.ips,
                                   !.exc = r.exc]
    /\ UNCHANGED << clientVars, writeVars, srvVars, chunkVars, tlsVars,
                    closeVars, wakeVars, dmesg_warns, hs_std, dev_mtu, flow,
                    nginx >>

SpecIf == IfInit /\ [][IfCall]_vars

\* C37: create_interfaces(name, base_ip, n) returns n addresses, the i-th
\* being base_ip plus i as a 32-bit number in dotted form, all distinct,
\* whenever base_ip + n - 1 is not above 255.255.255.255.
C37_InterfacesCreated ==
    LET Plus(ip, k) ==
            LET d == ip[4] + k
                c == ip[3] + d \div 256
                b == ip[2] + c \div 256
                a == ip[1] + b \div 256
            IN << a, b % 256, c % 256, d % 256 >>
        n == ifaces.n
    IN (ifaces.pc = "done" /\ (n = 0 \/ Plus(ifaces.base_ip, n - 1)[1] <= 255))
          => /\ ifaces.exc = None
             /\ Len(ifaces.ips) = n
             /\ \A i \in 1..n : ifaces.ips[i] = Plus(ifaces.base_ip, i - 1)
             /\ \A i, j \in 1..n : i # j => ifaces.ips[i] # ifaces.ips[j]

\* ------------------------------------------------------------------------
\* access_log/test_access_log_h2.py: the nginx backend of the tests.

\* backends whose division keeps the fraction: only 300 divided by 100 is 3.
backends_TrueDivision(status_code) ==
    << "return ", status_code,
       IF status_code # 3 * 100 THEN "" ELSE " http://non-existent-site",
       ";" >>

\* backends, lines 11-61: the directive of line 51 with the arguments of
\* lines 58-59.  The operands of "/" are integers and the division is the
\* integer one of Python 2, the language of the framework that runs the test.
backends(status_code) ==
    << "return ", status_code,
       IF status_code \div 100 # 3 THEN "" ELSE " http://non-existent-site",
       ";" >>

BeInit ==
    /\ ClientInit /\ WriteIdle /\ SrvIdle /\ ChunkIdle /\ TlsIdle
    /\ CloseIdle /\ WakeIdle /\ OldIdle /\ MtuIdle /\ IfIdle
    /\ \E status_code \in 100..599 :
          nginx = [pc |-> "call", status_code |-> status_code,
                   directive |-> << >>]

\* The class attribute backends = backends(status_code), lines 144-176.
BeBuild ==
    /\ nginx.pc = "call"
    /\ nginx' = [nginx EXCEPT !.pc = "done",
                              !.directive = backends(nginx.status_code)]
    /\ UNCHANGED << clientVars, writeVars, srvVars, chunkVars, tlsVars,
                    closeVars, wakeVars, dmesg_warns, hs_std, dev_mtu, flow,
                    ifaces >>

SpecBe == BeInit /\ [][BeBuild]_vars

====
